---------------------------- MODULE Spec2Model ----------------------------
(***************************************************************************)
(* Model of the bill-extraction core: the response recovery parser         *)
(* (app/core/extractor.py), the double-counting guard, the reconciliation  *)
(* engine and the validator (app/core/logic.py).                           *)
(*                                                                         *)
(* Decimal values are integers counted in thousandths (mills): 1.00 is     *)
(* 1000, 0.01 is 10, 0.005 is 5.  Text is a sequence of one-character      *)
(* strings, so that substring tests and character classes are computed.    *)
(***************************************************************************)
EXTENDS Integers, Sequences, FiniteSets, TLC

VARIABLES
    \* DoubleCountingGuard.filter_double_counts: argument, results, log
    g_items, clean_items, removed_items, g_log, g_pass,
    \* results of filtering clean_items once more
    clean_again, removed_again

guardVars ==
    <<g_items, clean_items, removed_items, g_log, g_pass, clean_again, removed_again>>

VARIABLES
    \* ReconciliationEngine: the list summed, the two totals reconciled, the
    \* engine's threshold (in hundredths of a percent), the outcome
    sum_items, calculated_total, actual_total, threshold, outcome, r_pc,
    \* the (is_valid, errors) pair of validate_line_item_amounts
    amount_check

reconVars ==
    <<sum_items, calculated_total, actual_total, threshold, outcome, r_pc, amount_check>>

VARIABLES
    \* ExtractedDataValidator.validate_and_clean: argument, the per-row
    \* trace of step 1, the returned list and report
    v_items, v_rows, v_out, report, v_pc,
    \* DataCleaner.clean_item_name: argument and returned name
    raw_name, cleaned_name, n_pc

validateVars == <<v_items, v_rows, v_out, report, v_pc, raw_name, cleaned_name, n_pc>>

VARIABLES
    \* GeminiExtractor._parse_response: the text, whether json5 was imported,
    \* the returned dict, the stages attempted in order, the stage whose
    \* output was returned
    response_text, json5, parsed, stages, taken, p_pc

parseVars == <<response_text, json5, parsed, stages, taken, p_pc>>

VARIABLES
    \* ExtractionOrchestrator: self.total_tokens (the total_tokens counter;
    \* input_tokens and output_tokens are updated by the same statements),
    \* and the extract_bill calls made so far, each with what the vision
    \* collaborator did and what the call returned
    total_tokens, o_calls

billVars == <<total_tokens, o_calls>>

VARIABLES
    \* process_pdf_extraction: what the vision collaborator answers for each
    \* page, the position of each page worker, its extraction_result, the
    \* items its extract_bill call computes from that, and the counter value
    \* it loaded, each worker's returned dict, the pages in completion order,
    \* the coordinator's position and the response; tokens_before records
    \* self.total_tokens at the submission of the pages
    pages, w_pc, w_img, w_items, w_tmp, w_result, completed, c_pc, response,
    tokens_before

pdfVars == <<pages, w_pc, w_img, w_items, w_tmp, w_result, completed, c_pc,
            response, tokens_before>>

VARIABLES
    \* ExtractionOrchestrator._apply_corrections: the two arguments, the list
    \* after each correction and the returned list
    fix_items, fix_list, fix_trace, fix_out, fix_pc

fixVars == <<fix_items, fix_list, fix_trace, fix_out, fix_pc>>

vars == <<guardVars, reconVars, validateVars, parseVars, billVars, pdfVars, fixVars>>

-----------------------------------------------------------------------------
(* Bounds of the model *)

\* rows of one ordinary item that open a guard input list
MaxRepeat == 6
\* arbitrary rows that follow them
MaxTail == 2

-----------------------------------------------------------------------------
(* Decimal arithmetic in mills *)

Abs(x) == IF x < 0 THEN -x ELSE x

Max(a, b) == IF a >= b THEN a ELSE b

\* Decimal('0.01') in mills
Cent == 10

\* d.quantize(Decimal('0.01'), rounding=ROUND_HALF_UP) of a value in mills:
\* ties go away from zero
Quantize(x) ==
    LET a == Abs(x)
        q == a \div Cent
        r == a % Cent
        m == IF 2 * r >= Cent THEN (q + 1) * Cent ELSE q * Cent
    IN  IF x < 0 THEN -m ELSE m

-----------------------------------------------------------------------------
(* Text helpers *)

UpperCase == <<"A","B","C","D","E","F","G","H","I","J","K","L","M",
               "N","O","P","Q","R","S","T","U","V","W","X","Y","Z">>
LowerCase == <<"a","b","c","d","e","f","g","h","i","j","k","l","m",
               "n","o","p","q","r","s","t","u","v","w","x","y","z">>

LowerChar(c) ==
    IF \E i \in 1..Len(UpperCase) : UpperCase[i] = c
    THEN LowerCase[CHOOSE i \in 1..Len(UpperCase) : UpperCase[i] = c]
    ELSE c

\* str.lower()
Lower(s) == [i \in 1..Len(s) |-> LowerChar(s[i])]

IsSpace(c) == c \in {" ", "\t", "\n", "\r"}

RECURSIVE LStrip(_)
LStrip(s) == IF s # <<>> /\ IsSpace(Head(s)) THEN LStrip(Tail(s)) ELSE s

RECURSIVE RStrip(_)
RStrip(s) ==
    IF s # <<>> /\ IsSpace(s[Len(s)]) THEN RStrip(SubSeq(s, 1, Len(s) - 1)) ELSE s

\* str.strip()
Strip(s) == RStrip(LStrip(s))

\* needle in hay
Contains(hay, needle) ==
    \E i \in 0..(Len(hay) - Len(needle)) : SubSeq(hay, i + 1, i + Len(needle)) = needle

-----------------------------------------------------------------------------
(* Item records: a dict is a record with the set of keys it holds *)

\* dict.get(key, default)
Get(item, key, default) == IF key \in item.keys THEN item[key] ELSE default

\* Decimal(str(item.get(key, default))) succeeds unless the stored value is
\* not a number (None, "abc"): such keys are listed in item.bad
Convertible(item, key) == key \notin item.bad

\* an internal-format item holding all four item_* keys
FullItem(name, qty, rate, amt) ==
    [keys |-> {"item_name", "item_quantity", "item_rate", "item_amount"},
     bad |-> {},
     item_name |-> name, item_quantity |-> qty, item_rate |-> rate,
     item_amount |-> amt, amount |-> 0]

\* a record that holds item_name and the key `amount` only
\* (tests/test_logic.py)
AmountOnlyItem(name, amt) ==
    [keys |-> {"item_name", "amount"},
     bad |-> {},
     item_name |-> name, item_quantity |-> 0, item_rate |-> 0,
     item_amount |-> 0, amount |-> amt]

-----------------------------------------------------------------------------
(* app/config.py *)

DOUBLE_COUNT_KEYWORDS == {
      <<"t","o","t","a","l">>,
      <<"s","u","b","t","o","t","a","l">>,
      <<"v","a","t">>,
      <<"t","a","x">>,
      <<"a","m","o","u","n","t"," ","d","u","e">>,
      <<"c","a","r","r","y"," ","f","o","r","w","a","r","d">>,
      <<"g","s","t">>,
      <<"s","g","s","t">>,
      <<"c","g","s","t">>,
      <<"i","g","s","t">>,
      <<"d","i","s","c","o","u","n","t">>,
      <<"f","e","e">>,
      <<"c","h","a","r","g","e">>,
      <<"s","h","i","p","p","i","n","g">>,
      <<"g","r","a","n","d"," ","t","o","t","a","l">> }

-----------------------------------------------------------------------------
(* DataCleaner *)

IsDigit(c) == c \in {"0","1","2","3","4","5","6","7","8","9"}

\* re.sub(old, new, text): every old, wherever it stands
ReplaceBetweenDigits_Anywhere(text, old, new) ==
    [i \in 1..Len(text) |-> IF text[i] = old THEN new ELSE text[i]]

\* re.sub(rf'(?<=[0-9]){old}(?=[0-9])', new, text): every old that stands
\* between two digits of text
ReplaceBetweenDigits(text, old, new) ==
    [i \in 1..Len(text) |->
        IF /\ text[i] = old
           /\ i > 1 /\ i < Len(text)
           /\ IsDigit(text[i - 1]) /\ IsDigit(text[i + 1])
        THEN new ELSE text[i]]

\* fix_ocr_errors: the four replacements, in the order of the dict
fix_ocr_errors(text) ==
    ReplaceBetweenDigits(
        ReplaceBetweenDigits(
            ReplaceBetweenDigits(
                ReplaceBetweenDigits(text, "l", "1"), "O", "0"), "S", "5"), "B", "8")

\* ' '.join(name.split())
RECURSIVE CollapseSpaces(_)
CollapseSpaces(s) ==
    LET t == LStrip(s)
    IN  IF t = <<>> THEN <<>>
        ELSE IF Len(t) > 1 /\ IsSpace(t[2])
             THEN LET rest == CollapseSpaces(Tail(t))
                  IN  IF rest = <<>> THEN <<Head(t)>> ELSE <<Head(t), " ">> \o rest
             ELSE <<Head(t)>> \o (IF Len(t) > 1 THEN CollapseSpaces(Tail(t)) ELSE <<>>)

IsNoise(c) == IsSpace(c) \/ c \in {"-", "*"}

RECURSIVE LStripNoise(_)
LStripNoise(s) == IF s # <<>> /\ IsNoise(Head(s)) THEN LStripNoise(Tail(s)) ELSE s

RECURSIVE RStripNoise(_)
RStripNoise(s) ==
    IF s # <<>> /\ IsNoise(s[Len(s)]) THEN RStripNoise(SubSeq(s, 1, Len(s) - 1)) ELSE s

\* clean_item_name
clean_item_name(name) ==
    IF name = <<>> THEN <<>>
    ELSE fix_ocr_errors(RStripNoise(LStripNoise(CollapseSpaces(name))))

-----------------------------------------------------------------------------
(* DoubleCountingGuard *)

is_double_count_keyword(text) ==
    IF text = <<>> THEN FALSE
    ELSE LET text_lower == Strip(Lower(text))
         IN  \E keyword \in DOUBLE_COUNT_KEYWORDS : Contains(text_lower, keyword)

RECURSIVE SumAmounts(_)
SumAmounts(items) ==
    IF items = <<>> THEN 0
    ELSE Get(Head(items), "item_amount", 0) + SumAmounts(Tail(items))

\* check_outlier_total without the 5x gate
check_outlier_total_NoGate(items, suspect_amount) ==
    IF Len(items) < 2 THEN FALSE
    ELSE LET total == SumAmounts(items)
         IN  IF total = 0 THEN FALSE
             ELSE Abs(suspect_amount - total) < 10

\* check_outlier_total with the gate at 3 times the average
check_outlier_total_Gate3(items, suspect_amount) ==
    IF Len(items) < 2 THEN FALSE
    ELSE LET total == SumAmounts(items)
         IN  IF total = 0 THEN FALSE
             ELSE /\ suspect_amount * Len(items) > total * 3
                  /\ Abs(suspect_amount - total) < Cent

\* avg_amount = total / len(items); suspect_amount > avg_amount * 5 is
\* compared after multiplying both sides by len(items) > 0
check_outlier_total(items, suspect_amount) ==
    IF Len(items) < 2 THEN FALSE
    ELSE LET total == SumAmounts(items)
         IN  IF total = 0 THEN FALSE
             ELSE /\ suspect_amount * Len(items) > total * 5
                  /\ Abs(suspect_amount - total) < Cent

\* the loop body with the veto written as "qty <= 0 and rate == 0"
FilterDecision_AndVeto(clean, item) ==
    LET item_name == Lower(Get(item, "item_name", <<>>))
        amount == Get(item, "item_amount", 0)
    IN  IF is_double_count_keyword(item_name)
        THEN LET qty == Get(item, "item_quantity", 0)
                 rate == Get(item, "item_rate", 0)
             IN  IF qty <= 0 /\ rate = 0 THEN "keyword" ELSE "kept_keyword"
        ELSE IF Len(clean) >= 3 /\ check_outlier_total(clean, amount)
             THEN "outlier"
             ELSE "kept"

\* one iteration of the loop of filter_double_counts on items[idx]:
\* "keyword" and "outlier" are the two removals, "kept_keyword" and "kept"
\* the two ways to reach clean_items.append
FilterDecision(clean, item) ==
    LET item_name == Lower(Get(item, "item_name", <<>>))
        amount == Get(item, "item_amount", 0)
    IN  IF is_double_count_keyword(item_name)
        THEN LET qty == Get(item, "item_quantity", 0)
                 rate == Get(item, "item_rate", 0)
             IN  IF qty <= 0 \/ rate = 0 THEN "keyword" ELSE "kept_keyword"
        ELSE IF Len(clean) >= 3 /\ check_outlier_total(clean, amount)
             THEN "outlier"
             ELSE "kept"

\* the loop with the outlier check run against every row seen so far
\* instead of the rows accepted so far
RECURSIVE FilterLoop_AllSeen(_, _, _, _, _)
FilterLoop_AllSeen(items, idx, clean, removed, log) ==
    IF idx > Len(items) THEN [clean |-> clean, removed |-> removed, log |-> log]
    ELSE LET item == items[idx]
             d == FilterDecision(SubSeq(items, 1, idx - 1), item)
         IN  IF d \in {"keyword", "outlier"}
             THEN FilterLoop_AllSeen(items, idx + 1, clean, Append(removed, item),
                                     Append(log, d))
             ELSE FilterLoop_AllSeen(items, idx + 1, Append(clean, item), removed,
                                     Append(log, d))

RECURSIVE FilterLoop(_, _, _, _, _)
FilterLoop(items, idx, clean, removed, log) ==
    IF idx > Len(items) THEN [clean |-> clean, removed |-> removed, log |-> log]
    ELSE LET item == items[idx]
             d == FilterDecision(clean, item)
         IN  IF d \in {"keyword", "outlier"}
             THEN FilterLoop(items, idx + 1, clean, Append(removed, item), Append(log, d))
             ELSE FilterLoop(items, idx + 1, Append(clean, item), removed, Append(log, d))

filter_double_counts(items) == FilterLoop(items, 1, <<>>, <<>>, <<>>)

-----------------------------------------------------------------------------
(* Names used by the inputs *)

NameTotal   == <<"T","o","t","a","l">>
NameCoffee  == <<"c","o","f","f","e","e">>
NameTaxi    == <<"t","a","x","i">>
NameCharge  == <<"s","e","r","v","i","c","e"," ","c","h","a","r","g","e">>
NameTabA    == <<"T","a","b"," ","A">>
NameMetnuro == <<"M","e","t","n","u","r","o">>

-----------------------------------------------------------------------------
(* ReconciliationEngine *)

\* (quantity * rate).quantize(Decimal('0.01'), rounding=ROUND_HALF_UP): the
\* product of two values in mills counts millionths
calculate_line_item_total(quantity, rate) ==
    LET p == quantity * rate
        a == Abs(p)
        c == a \div (1000 * Cent)
        r == a % (1000 * Cent)
        m == IF 2 * r >= 1000 * Cent THEN (c + 1) * Cent ELSE c * Cent
    IN  IF p < 0 THEN -m ELSE m

\* sum_line_items: Decimal(str(item.get('item_amount', 0))) raises on a value
\* that is no number, and the except branch returns Decimal('0.00')
sum_line_items(items) ==
    IF \E i \in 1..Len(items) :
          "item_amount" \in items[i].keys /\ ~Convertible(items[i], "item_amount")
    THEN 0
    ELSE Quantize(SumAmounts(items))

\* ReconciliationEngine(): threshold 0.01 percent, in hundredths of a percent
DefaultThreshold == 1
\* ReconciliationEngine(threshold=0.1) of test_reconcile_within_threshold
TestThreshold == 10

\* reconcile with the threshold test written with <
reconcile_StrictBelow(thr, calc, actual) ==
    LET discrepancy == Abs(calc - actual)
    IN  IF discrepancy = 0
        THEN [is_match |-> TRUE, discrepancy |-> 0, status |-> "exact_match"]
        ELSE IF actual > 0 /\ discrepancy < (thr * actual) \div 10000
             THEN [is_match |-> TRUE, discrepancy |-> discrepancy,
                   status |-> "within_threshold"]
             ELSE [is_match |-> FALSE, discrepancy |-> discrepancy,
                   status |-> "mismatch"]

\* reconcile(calculated_total, actual_total) of an engine built with
\* threshold thr/100 percent: self.threshold = Decimal(str(threshold)) / 100
\* is thr/10000, and discrepancy / actual_total <= self.threshold, for
\* actual_total > 0 and a whole number of mills, is
\* discrepancy <= floor(thr * actual_total / 10000)
reconcile(thr, calc, actual) ==
    LET discrepancy == Abs(calc - actual)
    IN  IF discrepancy = 0
        THEN [is_match |-> TRUE, discrepancy |-> 0, status |-> "exact_match"]
        ELSE IF actual > 0 /\ discrepancy <= (thr * actual) \div 10000
             THEN [is_match |-> TRUE, discrepancy |-> discrepancy,
                   status |-> "within_threshold"]
             ELSE [is_match |-> FALSE, discrepancy |-> discrepancy,
                   status |-> "mismatch"]

\* the row test with the tolerance max(0.01, 0.05 * amount)
RowMismatch_Relative(item) ==
    \/ \E k \in {"item_quantity", "item_rate", "item_amount"} :
          k \in item.keys /\ ~Convertible(item, k)
    \/ Abs(Get(item, "item_quantity", 0) * Get(item, "item_rate", 0)
             - 1000 * Get(item, "item_amount", 0))
         > Max(1000 * Cent, 50 * Get(item, "item_amount", 0))

\* validate_line_item_amounts: the positions whose quantity * rate (not
\* rounded) differs from the amount by more than 0.01; a value that is no
\* number gives an error entry as well
RowMismatch(item) ==
    \/ \E k \in {"item_quantity", "item_rate", "item_amount"} :
          k \in item.keys /\ ~Convertible(item, k)
    \/ Abs(Get(item, "item_quantity", 0) * Get(item, "item_rate", 0)
             - 1000 * Get(item, "item_amount", 0)) > 1000 * Cent

validate_line_item_amounts(items) ==
    LET errors == SelectSeq([i \in 1..Len(items) |-> i],
                            LAMBDA i : RowMismatch(items[i]))
    IN  [is_valid |-> Len(errors) = 0, errors |-> errors]

-----------------------------------------------------------------------------
(* ExtractedDataValidator *)

\* step 1 with the amount overwritten on any difference
CleanRow_NoTolerance(item) ==
    IF \E k \in {"item_quantity", "item_rate", "item_amount"} :
          k \in item.keys /\ ~Convertible(item, k)
    THEN [status |-> "error", warned |-> FALSE, stated |-> 0, item |-> item]
    ELSE LET quantity == Get(item, "item_quantity", 0)
             rate == Get(item, "item_rate", 0)
             amount == Get(item, "item_amount", 0)
             calculated_amount == calculate_line_item_total(quantity, rate)
             fix == calculated_amount # amount
         IN  [status |-> "ok", warned |-> fix, stated |-> amount,
              item |-> FullItem(clean_item_name(Get(item, "item_name", <<>>)),
                                quantity, rate,
                                IF fix THEN calculated_amount ELSE amount)]

\* step 1 of validate_and_clean on one row: the row is skipped with an
\* error entry when a number cannot be converted; else its amount is
\* overwritten, with a warning, when it is off the computed one by more
\* than 0.01
CleanRow(item) ==
    IF \E k \in {"item_quantity", "item_rate", "item_amount"} :
          k \in item.keys /\ ~Convertible(item, k)
    THEN [status |-> "error", warned |-> FALSE, stated |-> 0, item |-> item]
    ELSE LET quantity == Get(item, "item_quantity", 0)
             rate == Get(item, "item_rate", 0)
             amount == Get(item, "item_amount", 0)
             calculated_amount == calculate_line_item_total(quantity, rate)
             fix == Abs(calculated_amount - amount) > Cent
         IN  [status |-> "ok", warned |-> fix, stated |-> amount,
              item |-> FullItem(clean_item_name(Get(item, "item_name", <<>>)),
                                quantity, rate,
                                IF fix THEN calculated_amount ELSE amount)]

\* the warning text names the row, the stated and the computed amount
WarningOf(row) ==
    [item_name |-> row.item.item_name, from |-> row.stated, to |-> row.item.item_amount]

\* validate_and_clean with original_count taken after step 1
validate_and_clean_CountCleaned(items) ==
    LET rows == [i \in 1..Len(items) |-> CleanRow(items[i])]
        okRows == SelectSeq(rows, LAMBDA r : r.status = "ok")
        cleaned_items == [i \in 1..Len(okRows) |-> okRows[i].item]
        warnRows == SelectSeq(rows, LAMBDA r : r.warned)
        filtered == filter_double_counts(cleaned_items)
        check == validate_line_item_amounts(filtered.clean)
    IN  [rows |-> rows,
         items |-> filtered.clean,
         report |-> [original_count |-> Len(cleaned_items),
                     cleaned |-> Len(cleaned_items),
                     removed |-> filtered.removed,
                     warnings |-> [i \in 1..Len(warnRows) |-> WarningOf(warnRows[i])],
                     skipped |-> Len(items) - Len(okRows),
                     calc_errors |-> check.errors,
                     final_count |-> Len(filtered.clean)]]

\* validate_and_clean(items, bill_total): rows is the trace of step 1
validate_and_clean(items) ==
    LET rows == [i \in 1..Len(items) |-> CleanRow(items[i])]
        okRows == SelectSeq(rows, LAMBDA r : r.status = "ok")
        cleaned_items == [i \in 1..Len(okRows) |-> okRows[i].item]
        warnRows == SelectSeq(rows, LAMBDA r : r.warned)
        filtered == filter_double_counts(cleaned_items)
        check == validate_line_item_amounts(filtered.clean)
    IN  [rows |-> rows,
         items |-> filtered.clean,
         report |-> [original_count |-> Len(items),
                     cleaned |-> Len(cleaned_items),
                     removed |-> filtered.removed,
                     warnings |-> [i \in 1..Len(warnRows) |-> WarningOf(warnRows[i])],
                     skipped |-> Len(items) - Len(okRows),
                     calc_errors |-> check.errors,
                     final_count |-> Len(filtered.clean)]]

-----------------------------------------------------------------------------
(* Response text.  A text is a sequence of tokens [k, s, n]: the structure *)
(* characters "{" "}" "[" "]" ",", a newline "nl", a space "sp", prose     *)
(* "txt" (no brace, no quote), the literal "null", the key "items"         *)
(* ("line_items":), and the key-value pairs of the response format:        *)
(* "item_name" ("item_name": "s"), "quantity", "rate", "amount",           *)
(* "bill_total" (each "key": n, n in mills), "notes" and                   *)
(* "extraction_reasoning" ("key": "s").  "str" is a quoted string alone    *)
(* and "tail" the text `: n` that follows a key.                           *)

Tok(k) == [k |-> k, s |-> <<>>, n |-> 0]
TokNum(k, n) == [k |-> k, s |-> <<>>, n |-> n]
TokStr(k, str) == [k |-> k, s |-> str, n |-> 0]

NumberKinds == {"quantity", "rate", "amount", "bill_total"}
StringKinds == {"item_name", "notes", "extraction_reasoning"}
PairKinds == NumberKinds \cup StringKinds

IsWs(tok) == tok.k \in {"nl", "sp"}

\* the number of quoted strings of a token
Quotes(tok) ==
    IF tok.k \in StringKinds THEN 2
    ELSE IF tok.k \in NumberKinds \cup {"items", "str"} THEN 1 ELSE 0

\* the number of characters of a token
Width(tok) ==
    CASE tok.k = "item_name" -> 15 + Len(tok.s)
      [] tok.k = "notes" -> 11 + Len(tok.s)
      [] tok.k = "extraction_reasoning" -> 26 + Len(tok.s)
      [] tok.k = "quantity" -> 13
      [] tok.k = "rate" -> 9
      [] tok.k = "amount" -> 11
      [] tok.k = "bill_total" -> 15
      [] tok.k = "items" -> 13
      [] tok.k = "null" -> 4
      [] tok.k = "txt" -> 24
      [] OTHER -> 1

\* decoded values: a dict is a record with the set of keys it holds; the
\* value of line_items is a list, null or an object
NullValue == [tag |-> "null", elems |-> <<>>]
ListValue(elems) == [tag |-> "list", elems |-> elems]
NoNumber == [some |-> FALSE, n |-> 0]
Number(n) == [some |-> TRUE, n |-> n]

EmptyDict ==
    [keys |-> {}, item_name |-> <<>>, quantity |-> 0, rate |-> 0, amount |-> 0,
     bill_total |-> NoNumber, notes |-> <<>>, extraction_reasoning |-> <<>>,
     line_items |-> NullValue]

\* d[key] = value of a pair token; a repeated key keeps the last value
SetPair(d, tok) ==
    IF tok.k = "bill_total"
    THEN [d EXCEPT !.keys = @ \cup {tok.k}, !.bill_total = Number(tok.n)]
    ELSE IF tok.k \in NumberKinds
    THEN [d EXCEPT !.keys = @ \cup {tok.k}, ![tok.k] = tok.n]
    ELSE [d EXCEPT !.keys = @ \cup {tok.k}, ![tok.k] = tok.s]

\* the keys of the dict _parse_response returns from a recovered extraction
ResultKeys == {"extraction_reasoning", "line_items", "bill_total", "subtotals", "notes"}

ParseFail == [ok |-> FALSE, next |-> 0, val |-> EmptyDict]

\* json.loads / json5.loads on a text without whitespace tokens: a recursive
\* descent over object, member, value and array; lenient (json5) also takes
\* one trailing comma before "}" and "]"
RECURSIVE ParseObject(_, _, _)
RECURSIVE ParseMember(_, _, _, _)
RECURSIVE AfterMember(_, _, _, _)
RECURSIVE ParseValue(_, _, _)
RECURSIVE ParseElement(_, _, _, _)
RECURSIVE AfterElement(_, _, _, _)

ParseObject(t, p, lenient) ==
    IF p > Len(t) \/ t[p].k # "{" THEN ParseFail
    ELSE IF p + 1 <= Len(t) /\ t[p + 1].k = "}"
         THEN [ok |-> TRUE, next |-> p + 2, val |-> EmptyDict]
         ELSE ParseMember(t, p + 1, EmptyDict, lenient)

ParseMember(t, p, acc, lenient) ==
    IF p > Len(t) THEN ParseFail
    ELSE IF t[p].k \in PairKinds
         THEN AfterMember(t, p + 1, SetPair(acc, t[p]), lenient)
         ELSE IF t[p].k = "items"
              THEN LET v == ParseValue(t, p + 1, lenient)
                   IN  IF v.ok
                       THEN AfterMember(t, v.next,
                                [acc EXCEPT !.keys = @ \cup {"line_items"},
                                            !.line_items = v.val], lenient)
                       ELSE ParseFail
              ELSE ParseFail

AfterMember(t, p, acc, lenient) ==
    IF p > Len(t) THEN ParseFail
    ELSE IF t[p].k = "}" THEN [ok |-> TRUE, next |-> p + 1, val |-> acc]
         ELSE IF t[p].k = ","
              THEN IF lenient /\ p + 1 <= Len(t) /\ t[p + 1].k = "}"
                   THEN [ok |-> TRUE, next |-> p + 2, val |-> acc]
                   ELSE ParseMember(t, p + 1, acc, lenient)
              ELSE ParseFail

ParseValue(t, p, lenient) ==
    IF p > Len(t) THEN ParseFail
    ELSE IF t[p].k = "null" THEN [ok |-> TRUE, next |-> p + 1, val |-> NullValue]
    ELSE IF t[p].k = "{"
         THEN LET o == ParseObject(t, p, lenient)
              IN  IF o.ok
                  THEN [ok |-> TRUE, next |-> o.next,
                        val |-> [tag |-> "object", elems |-> <<o.val>>]]
                  ELSE ParseFail
    ELSE IF t[p].k = "["
         THEN IF p + 1 <= Len(t) /\ t[p + 1].k = "]"
              THEN [ok |-> TRUE, next |-> p + 2, val |-> ListValue(<<>>)]
              ELSE ParseElement(t, p + 1, <<>>, lenient)
    ELSE ParseFail

ParseElement(t, p, acc, lenient) ==
    LET o == ParseObject(t, p, lenient)
    IN  IF o.ok THEN AfterElement(t, o.next, Append(acc, o.val), lenient)
        ELSE ParseFail

AfterElement(t, p, acc, lenient) ==
    IF p > Len(t) THEN ParseFail
    ELSE IF t[p].k = "]" THEN [ok |-> TRUE, next |-> p + 1, val |-> ListValue(acc)]
         ELSE IF t[p].k = ","
              THEN IF lenient /\ p + 1 <= Len(t) /\ t[p + 1].k = "]"
                   THEN [ok |-> TRUE, next |-> p + 2, val |-> ListValue(acc)]
                   ELSE ParseElement(t, p + 1, acc, lenient)
              ELSE ParseFail

WithoutWs(t) == SelectSeq(t, LAMBDA tok : ~IsWs(tok))

\* json.loads(text) (lenient FALSE) and json5.loads(text) (lenient TRUE):
\* ok is FALSE where the call raises.  The texts decoded here start with
\* "{" or with a string, so a text that decodes is an object.
Loads(text, lenient) ==
    LET t == WithoutWs(text)
        o == ParseObject(t, 1, lenient)
    IN  IF o.ok /\ o.next = Len(t) + 1
        THEN [ok |-> TRUE, val |-> o.val]
        ELSE [ok |-> FALSE, val |-> EmptyDict]

-----------------------------------------------------------------------------
(* GeminiExtractor: the repairs and the regex salvage *)

\* str.replace(',' + close, close): each "," that stands right before close
DropCommaBefore(t, close) ==
    LET keep == {i \in 1..Len(t) :
                    ~(t[i].k = "," /\ i < Len(t) /\ t[i + 1].k = close)}
        idx == SelectSeq([i \in 1..Len(t) |-> i], LAMBDA i : i \in keep)
    IN  [i \in 1..Len(idx) |-> t[idx[i]]]

\* the first position at or after p that holds no whitespace token
RECURSIVE SkipWs(_, _)
SkipWs(t, p) == IF p <= Len(t) /\ IsWs(t[p]) THEN SkipWs(t, p + 1) ELSE p

\* re.sub(r'}\s*{', '},{', json_str)
RECURSIVE CommaBetweenObjects(_, _)
CommaBetweenObjects(t, p) ==
    IF p > Len(t) THEN <<>>
    ELSE LET q == SkipWs(t, p + 1)
         IN  IF t[p].k = "}" /\ q <= Len(t) /\ t[q].k = "{"
             THEN <<Tok("}"), Tok(",")>> \o CommaBetweenObjects(t, q)
             ELSE <<t[p]>> \o CommaBetweenObjects(t, p + 1)

\* re.sub(r'}\s*}\s*', '},}', json_str): matches do not overlap
RECURSIVE CommaBetweenCloses(_, _)
CommaBetweenCloses(t, p) ==
    IF p > Len(t) THEN <<>>
    ELSE LET q == SkipWs(t, p + 1)
         IN  IF t[p].k = "}" /\ q <= Len(t) /\ t[q].k = "}"
             THEN <<Tok("}"), Tok(","), Tok("}")>>
                     \o CommaBetweenCloses(t, SkipWs(t, q + 1))
             ELSE <<t[p]>> \o CommaBetweenCloses(t, p + 1)

\* what fix_quoted_strings keeps of one token that holds quotes: its strings
StringsOf(tok) == [i \in 1..Quotes(tok) |-> Tok("str")]

\* the text of a token after its last string
TailOf(tok) ==
    IF tok.k \in NumberKinds THEN <<TokNum("tail", tok.n)>>
    ELSE IF tok.k = "items" THEN <<Tok("tail")>> ELSE <<>>

RECURSIVE StringsUpTo(_, _)
StringsUpTo(t, last) ==
    IF last = 0 THEN <<>> ELSE StringsUpTo(t, last - 1) \o StringsOf(t[last])

\* fix_quoted_strings: `current_string = char` at an opening quote drops the
\* text gathered since the last closing quote, so the result is every quoted
\* string followed by the text after the last one
fix_quoted_strings(t) ==
    LET quoted == {i \in 1..Len(t) : Quotes(t[i]) > 0}
    IN  IF quoted = {} THEN t
        ELSE LET last == CHOOSE i \in quoted : \A j \in quoted : j <= i
             IN  StringsUpTo(t, last) \o TailOf(t[last]) \o SubSeq(t, last + 1, Len(t))

NewlinesToSpaces(t) == [i \in 1..Len(t) |-> IF t[i].k = "nl" THEN Tok("sp") ELSE t[i]]

\* steps 1 to 3 of _fix_json_structure
FixCommas(t) ==
    DropCommaBefore(
        DropCommaBefore(CommaBetweenCloses(CommaBetweenObjects(t, 1), 1), "}"), "]")

\* _fix_json_structure
fix_json_structure(t) == fix_quoted_strings(NewlinesToSpaces(FixCommas(t)))

\* _repair_json: the trailing commas and the newlines; its regex escapes
\* quotes inside string values, and the strings of a token hold none
repair_json(t) == NewlinesToSpaces(DropCommaBefore(DropCommaBefore(t, "]"), "}"))

\* json_str[start_pos:start_pos + 500]
WINDOW == 500

\* the characters from the end of the name matched in token i to the end of
\* token j > i: the closing quote, then the tokens up to j
RECURSIVE WidthBetween(_, _, _)
WidthBetween(t, i, j) == IF j <= i THEN 1 ELSE WidthBetween(t, i, j - 1) + Width(t[j])

\* re.search(r'"<kind>"\s*:\s*([\d.]+)', chunk): the first token of the kind
\* that lies in the chunk after token i, FALSE/0 when there is none
FieldAfter(t, i, kind) ==
    LET hits == {j \in (i + 1)..Len(t) :
                    t[j].k = kind /\ WidthBetween(t, i, j) <= WINDOW}
    IN  IF hits = {} THEN NoNumber
        ELSE Number(t[CHOOSE j \in hits : \A h \in hits : j <= h].n)

\* name[:20]
First20(name) == SubSeq(name, 1, IF Len(name) < 20 THEN Len(name) ELSE 20)

\* the item _extract_values_safely builds for one entry of item_names:
\* re.search finds the first item_name field whose value holds name[:20]
SalvageItem(t, name) ==
    LET stripped == Strip(name)
        at == {i \in 1..Len(t) :
                  t[i].k = "item_name" /\ Contains(t[i].s, First20(stripped))}
    IN  IF stripped = <<>> \/ at = {} THEN [found |-> FALSE, item |-> EmptyDict]
        ELSE LET i == CHOOSE i \in at : \A h \in at : i <= h
                 q == FieldAfter(t, i, "quantity")
                 r == FieldAfter(t, i, "rate")
                 a == FieldAfter(t, i, "amount")
                 item == [EmptyDict EXCEPT
                            !.keys = {"item_name", "quantity", "rate", "amount"},
                            !.item_name = stripped,
                            !.quantity = IF q.some THEN q.n ELSE 1000,
                            !.rate = IF r.some THEN r.n ELSE 0,
                            !.amount = IF a.some THEN a.n ELSE 0]
             IN  [found |-> item.quantity > 0 \/ item.amount > 0, item |-> item]

\* _extract_values_safely: bill_total from the first bill_total field, one
\* entry of item_names per item_name field (re.findall), an item per entry
extract_values_safely(t) ==
    LET totals == {i \in 1..Len(t) : t[i].k = "bill_total"}
        names == SelectSeq(t, LAMBDA tok : tok.k = "item_name")
        tries == [i \in 1..Len(names) |-> SalvageItem(t, names[i].s)]
        found == SelectSeq(tries, LAMBDA x : x.found)
    IN  [EmptyDict EXCEPT
            !.keys = ResultKeys,
            !.line_items = ListValue([i \in 1..Len(found) |-> found[i].item]),
            !.bill_total = IF totals = {} THEN NoNumber
                           ELSE Number(t[CHOOSE i \in totals :
                                             \A h \in totals : i <= h].n)]

\* the notes the parser writes itself; the last two are followed by the
\* text of the exception
NoteNoJson == <<"Failed to parse response">>
NoteFailedJson == <<"Failed to parse JSON">>
NoteNotRecovered == <<"JSON parsing failed - could not recover">>
NoteError == <<"JSON parsing error">>

\* the dict of the four early returns: no extraction_reasoning key
Fallback(note) ==
    [EmptyDict EXCEPT
        !.keys = {"line_items", "bill_total", "subtotals", "notes"},
        !.line_items = ListValue(<<>>),
        !.notes = note]

\* the last statement of _parse_response: `if extraction:` is false for an
\* empty dict; else each field is extraction.get(key, default), and the value
\* of subtotals is always a list here (no text of the model holds subtotals)
Finish(extraction) ==
    IF extraction.keys # {}
    THEN [EmptyDict EXCEPT
            !.keys = ResultKeys,
            !.extraction_reasoning = Get(extraction, "extraction_reasoning", <<>>),
            !.line_items = Get(extraction, "line_items", ListValue(<<>>)),
            !.bill_total = Get(extraction, "bill_total", NoNumber),
            !.notes = Get(extraction, "notes", <<>>)]
    ELSE Fallback(NoteFailedJson)

\* the substring from the first "{" to the last "}", empty when the last
\* "}" stands before the first "{"
JsonSubstring(t) ==
    LET opens == {i \in 1..Len(t) : t[i].k = "{"}
        closes == {i \in 1..Len(t) : t[i].k = "}"}
        start_idx == CHOOSE i \in opens : \A h \in opens : i <= h
        end_idx == CHOOSE i \in closes : \A h \in closes : h <= i
    IN  SubSeq(t, start_idx, end_idx)

HasJson(t) == (\E i \in 1..Len(t) : t[i].k = "{") /\ (\E i \in 1..Len(t) : t[i].k = "}")

\* the recovery in the order lenient parse, structural repair, regex salvage
Recover_LenientFirst(json_str, has_json5) ==
    LET salvaged == extract_values_safely(json_str)
        fixed == Loads(fix_json_structure(json_str), FALSE)
        lenient == Loads(json_str, TRUE)
    IN  IF has_json5 /\ lenient.ok
        THEN [result |-> Finish(lenient.val), stages |-> <<"strict", "json5">>,
              taken |-> "json5"]
        ELSE IF fixed.ok
        THEN [result |-> Finish(fixed.val), stages |-> <<"strict", "json5", "fix">>,
              taken |-> "fix"]
        ELSE [result |-> salvaged, stages |-> <<"strict", "json5", "fix", "regex">>,
              taken |-> IF salvaged.line_items.elems # <<>> THEN "regex" ELSE "none"]

\* the recovery of _parse_response after json.loads(json_str) has raised:
\* STEP 1 regex, STEP 2 _fix_json_structure and json.loads, STEP 3 json5,
\* STEP 4 _repair_json and json.loads when extraction is still None.
\* extraction holds the dict of STEP 1 from STEP 1 on.
Recover(json_str, has_json5) ==
    LET salvaged == extract_values_safely(json_str)
        fixed == Loads(fix_json_structure(json_str), FALSE)
        lenient == Loads(json_str, TRUE)
        after3 == IF has_json5 /\ lenient.ok
                  THEN [none |-> FALSE, val |-> lenient.val]
                  ELSE [none |-> FALSE, val |-> salvaged]
        tried3 == <<"strict", "regex", "fix">>
                     \o (IF has_json5 THEN <<"json5">> ELSE <<>>)
        repaired == Loads(repair_json(json_str), FALSE)
    IN  IF salvaged.line_items.elems # <<>>
        THEN [result |-> salvaged, stages |-> <<"strict", "regex">>, taken |-> "regex"]
        ELSE IF fixed.ok
        THEN [result |-> Finish(fixed.val), stages |-> <<"strict", "regex", "fix">>,
              taken |-> "fix"]
        ELSE IF after3.none
        THEN IF repaired.ok
             THEN [result |-> Finish(repaired.val), stages |-> Append(tried3, "repair"),
                   taken |-> "repair"]
             ELSE [result |-> Fallback(NoteNotRecovered),
                   stages |-> Append(tried3, "repair"), taken |-> "none"]
        ELSE [result |-> Finish(after3.val), stages |-> tried3,
              taken |-> IF has_json5 /\ lenient.ok THEN "json5" ELSE "none"]

\* _parse_response(response_text); a response_text that is no string raises
\* in the first statement, inside the outer try
parse_response(text, has_json5) ==
    IF text.none
    THEN [result |-> Fallback(NoteError), stages |-> <<>>, taken |-> "except"]
    ELSE LET t == NewlinesToSpaces(text.toks)
         IN  IF ~HasJson(t)
             THEN [result |-> Fallback(NoteNoJson), stages |-> <<>>, taken |-> "none"]
             ELSE LET json_str == JsonSubstring(t)
                      strict == Loads(json_str, FALSE)
                  IN  IF strict.ok
                      THEN [result |-> Finish(strict.val), stages |-> <<"strict">>,
                            taken |-> "strict"]
                      ELSE Recover(json_str, has_json5)

-----------------------------------------------------------------------------
(* ExtractionOrchestrator *)

\* app/config.py MAX_RETRY_ATTEMPTS
MAX_RETRY_ATTEMPTS == 3

\* _convert_to_internal_format on one item: _safe_decimal_convert gives the
\* default for an absent (None) value and the value itself for a number
ConvertItem(item) ==
    FullItem(Get(item, "item_name", <<>>),
             Get(item, "quantity", 1000),
             Get(item, "rate", 0),
             Get(item, "amount", 0))

\* _convert_to_internal_format(line_items): iterating an object (a dict)
\* yields its keys, item.get raises on each and the item is skipped
convert_to_internal_format(line_items) ==
    IF line_items.tag = "list"
    THEN [i \in 1..Len(line_items.elems) |-> ConvertItem(line_items.elems[i])]
    ELSE <<>>

\* correction.get('item_name') of a correction without that key
NoneName == <<"None">>

\* a correction of the retry response: the keys it holds, the numbers among
\* them that are no number, and the values
Correction(keys, bad, action, item_name, quantity, rate, amount) ==
    [keys |-> keys, bad |-> bad, action |-> action, item_name |-> item_name,
     quantity |-> quantity, rate |-> rate, amount |-> amount]

\* _safe_decimal_convert(d.get(key), default): the default for an absent
\* (None) value and for one that is no number
safe_decimal_convert(d, key, default) ==
    IF key \in d.keys /\ key \notin d.bad THEN d[key] ELSE default

\* one correction with the defaults 1, 0, 0 taken by modify as well
ApplyCorrection_Defaults(items, correction) ==
    LET action == Lower(Get(correction, "action", <<>>))
        item_name == Get(correction, "item_name", NoneName)
    IN  IF action = <<"a","d","d">>
        THEN Append(items,
                    FullItem(item_name,
                             safe_decimal_convert(correction, "quantity", 1000),
                             safe_decimal_convert(correction, "rate", 0),
                             safe_decimal_convert(correction, "amount", 0)))
        ELSE IF action = <<"r","e","m","o","v","e">>
        THEN SelectSeq(items, LAMBDA i : i.item_name # item_name)
        ELSE IF action = <<"m","o","d","i","f","y">>
        THEN [k \in 1..Len(items) |->
                IF items[k].item_name = item_name
                THEN [items[k] EXCEPT
                        !.item_quantity = safe_decimal_convert(correction, "quantity", 1000),
                        !.item_rate = safe_decimal_convert(correction, "rate", 0),
                        !.item_amount = safe_decimal_convert(correction, "amount", 0)]
                ELSE items[k]]
        ELSE items

\* one pass of the loop of _apply_corrections
ApplyCorrection(items, correction) ==
    LET action == Lower(Get(correction, "action", <<>>))
        item_name == Get(correction, "item_name", NoneName)
    IN  IF action = <<"a","d","d">>
        THEN Append(items,
                    FullItem(item_name,
                             safe_decimal_convert(correction, "quantity", 1000),
                             safe_decimal_convert(correction, "rate", 0),
                             safe_decimal_convert(correction, "amount", 0)))
        ELSE IF action = <<"r","e","m","o","v","e">>
        THEN SelectSeq(items, LAMBDA i : i.item_name # item_name)
        ELSE IF action = <<"m","o","d","i","f","y">>
        THEN [k \in 1..Len(items) |->
                IF items[k].item_name = item_name
                THEN [items[k] EXCEPT
                        !.item_quantity = safe_decimal_convert(correction, "quantity", @),
                        !.item_rate = safe_decimal_convert(correction, "rate", @),
                        !.item_amount = safe_decimal_convert(correction, "amount", @)]
                ELSE items[k]]
        ELSE items

\* _apply_corrections(items, corrections): the list before the loop and
\* after each correction; the last one is returned
RECURSIVE apply_corrections(_, _)
apply_corrections(items, corrections) ==
    IF corrections = <<>> THEN <<items>>
    ELSE LET before == apply_corrections(items, SubSeq(corrections, 1, Len(corrections) - 1))
         IN  Append(before, ApplyCorrection(before[Len(before)], corrections[Len(corrections)]))

\* an item of _validate_extracted_items: the four fields and a confidence
\* in hundredths
ScoredItem(name, qty, rate, amt, confidence) ==
    [keys |-> {"item_name", "item_quantity", "item_rate", "item_amount", "confidence"},
     bad |-> {},
     item_name |-> name, item_quantity |-> qty, item_rate |-> rate,
     item_amount |-> amt, amount |-> 0, confidence |-> confidence]

\* `float(x) if x else default` of _validate_extracted_items
OrDefault(x, default) == IF x # 0 THEN x ELSE default

\* one step of the loop of _validate_extracted_items: the row is read under
\* the keys quantity, rate and amount
ScoreRow(acc, item) ==
    LET item_name == Strip(Get(item, "item_name", <<>>))
        quantity == OrDefault(Get(item, "quantity", 1000), 1000)
        rate == OrDefault(Get(item, "rate", 0), 0)
        amount == OrDefault(Get(item, "amount", 0), 0)
        suspicious == /\ quantity > 0 /\ rate > 0 /\ amount > 0
                      /\ Abs(quantity * rate - 1000 * amount)
                            > (IF 50 * amount > 10000 THEN 50 * amount ELSE 10000)
        flagged == acc.suspicious + (IF suspicious THEN 1 ELSE 0)
    IN  IF item_name = <<>>
        THEN [acc EXCEPT !.invalid = @ + 1]
        ELSE IF amount = 0 /\ quantity = 0
        THEN [acc EXCEPT !.zero = @ + 1]
        ELSE [acc EXCEPT
                !.suspicious = flagged,
                !.valid = @ + 1,
                !.items = Append(@, ScoredItem(item_name, quantity, rate, amount,
                                               IF flagged = 0 THEN 95 ELSE 75))]

RECURSIVE ScoreLoop(_, _, _)
ScoreLoop(line_items, idx, acc) ==
    IF idx > Len(line_items) THEN acc
    ELSE ScoreLoop(line_items, idx + 1, ScoreRow(acc, line_items[idx]))

\* GeminiExtractor._validate_extracted_items(line_items, bill_total); the
\* accuracy score is counted in thousandths, rounded down
validate_extracted_items(line_items) ==
    LET acc == ScoreLoop(line_items, 1,
                         [items |-> <<>>, valid |-> 0, invalid |-> 0, zero |-> 0,
                          suspicious |-> 0])
        total == Len(line_items)
        raw == IF total > 0 THEN (1000 * acc.valid - 200 * acc.suspicious) \div total
               ELSE 0
    IN  [items |-> acc.items,
         report |-> [total_items |-> total, valid_items |-> acc.valid,
                     invalid_items |-> acc.invalid,
                     items_with_zero_amount |-> acc.zero,
                     suspicious_items |-> acc.suspicious,
                     accuracy_score |-> IF raw < 0 THEN 0
                                        ELSE IF raw > 1000 THEN 1000 ELSE raw]]

\* the warnings of the metadata
AmountWarning(w) ==
    [kind |-> "amount mismatch", item_name |-> w.item_name, from |-> w.from, to |-> w.to]
NoItemsWarning ==
    [kind |-> "No line items found in document", item_name |-> <<>>, from |-> 0, to |-> 0]
ExceptionWarning(text) == [kind |-> text, item_name |-> <<>>, from |-> 0, to |-> 0]

\* the metadata extract_bill starts with
NewMetadata ==
    [keys |-> {"page_no", "extraction_confidence", "reconciliation_status",
               "discrepancy", "retry_attempts", "warnings", "token_usage"},
     extraction_confidence |-> 0,
     reconciliation_status |-> "pending",
     discrepancy |-> 0,
     retry_attempts |-> 0,
     warnings |-> <<>>,
     token_usage |-> 0,
     extraction_notes |-> <<>>,
     extraction_reasoning |-> <<>>,
     accuracy_score |-> 0]

\* what one call of the vision collaborator does: generate_content raises,
\* or it returns a response with a text and, possibly, usage_metadata
Raises == [raises |-> TRUE, text |-> [none |-> FALSE, toks |-> <<>>], usage |-> NoNumber]
Responds(text, usage) == [raises |-> FALSE, text |-> text, usage |-> usage]

\* extract_from_image after _parse_response returned r: the usage is that
\* of the response, zeros if it has none;
\* len(extraction_result.get('line_items', [])) raises on a null line_items
ImageFromParsed(r, usage) ==
    IF r.result.line_items.tag = "null"
    THEN [raised |-> TRUE, exc |-> "object of type 'NoneType' has no len()",
          stages |-> <<"vision", "parse">>, result |-> r.result, usage |-> 0]
    ELSE [raised |-> FALSE, exc |-> "",
          stages |-> <<"vision", "parse">>, result |-> r.result,
          usage |-> IF usage.some THEN usage.n ELSE 0]

\* GeminiExtractor.extract_from_image: every exception is logged and raised
\* again.  response_text[:500] raises on a text that is no string.
extract_from_image(vision, has_json5) ==
    IF vision.raises
    THEN [raised |-> TRUE, exc |-> "generate_content raised",
          stages |-> <<"vision">>, result |-> EmptyDict, usage |-> 0]
    ELSE IF vision.text.none
    THEN [raised |-> TRUE, exc |-> "'NoneType' object is not subscriptable",
          stages |-> <<"vision">>, result |-> EmptyDict, usage |-> 0]
    ELSE ImageFromParsed(parse_response(vision.text, has_json5), vision.usage)

\* the except branch without the assignment of the status
ErrorReturn_StatusKept(metadata, tokens, exc, ran) ==
    [items |-> <<>>, total |-> 0,
     metadata |-> [metadata EXCEPT !.warnings = Append(@, ExceptionWarning(exc))],
     tokens |-> tokens, stages |-> ran, vision_calls |-> 1, corrections |-> 0]

\* the except branch of extract_bill
ErrorReturn(metadata, tokens, exc, ran) ==
    [items |-> <<>>, total |-> 0,
     metadata |-> [metadata EXCEPT !.reconciliation_status = "error",
                                   !.warnings = Append(@, ExceptionWarning(exc))],
     tokens |-> tokens, stages |-> ran, vision_calls |-> 1, corrections |-> 0]

\* an empty list carried on through the validation instead
NoItemsReturn_Validated(metadata, tokens, extraction_result, ran) ==
    [items |-> <<>>, total |-> 0,
     metadata |-> [metadata EXCEPT !.reconciliation_status = "skipped_for_speed"],
     tokens |-> tokens, stages |-> ran \o <<"validate", "accuracy", "sum">>,
     vision_calls |-> 1, corrections |-> 0]

\* the return under `if not raw_items:`; the reasoning is cut to 500
\* characters, more than a text of the model holds
NoItemsReturn(metadata, tokens, extraction_result, ran) ==
    [items |-> <<>>, total |-> 0,
     metadata |-> [metadata EXCEPT
                     !.keys = @ \cup {"extraction_notes", "extraction_reasoning"},
                     !.warnings = Append(@, NoItemsWarning),
                     !.extraction_notes = Get(extraction_result, "notes", <<>>),
                     !.extraction_reasoning =
                         Get(extraction_result, "extraction_reasoning", <<>>)],
     tokens |-> tokens, stages |-> ran, vision_calls |-> 1, corrections |-> 0]

\* the end of extract_bill with the reconciliation run and the corrective
\* round-trip repeated MAX_RETRY_ATTEMPTS times on a mismatch
FinishBill_RetryLoop(items, calc_total, bill_total, metadata, tokens, ran) ==
    LET rec == reconcile(DefaultThreshold, calc_total, bill_total.n)
        retry == bill_total.some /\ ~rec.is_match
        rounds == IF retry THEN MAX_RETRY_ATTEMPTS ELSE 0
    IN  [items |-> items, total |-> calc_total,
         metadata |-> [metadata EXCEPT
                         !.reconciliation_status =
                             IF bill_total.some THEN rec.status ELSE "skipped_for_speed",
                         !.discrepancy = IF bill_total.some THEN rec.discrepancy ELSE 0,
                         !.retry_attempts = rounds,
                         !.extraction_confidence = metadata.accuracy_score],
         tokens |-> tokens,
         stages |-> ran \o (IF bill_total.some THEN <<"reconcile">> ELSE <<>>)
                           \o (IF retry THEN <<"retry", "corrections">> ELSE <<>>),
         vision_calls |-> 1 + rounds, corrections |-> rounds]

\* the end of extract_bill, after sum_line_items: "SKIP RECONCILIATION for
\* speed - return immediately"
FinishBill(items, calc_total, bill_total, metadata, tokens, ran) ==
    [items |-> items, total |-> calc_total,
     metadata |-> [metadata EXCEPT
                     !.reconciliation_status = "skipped_for_speed",
                     !.extraction_confidence = metadata.accuracy_score],
     tokens |-> tokens, stages |-> ran, vision_calls |-> 1, corrections |-> 0]

\* extract_bill from the Validator's output on: _validate_extracted_items,
\* the accuracy score, sum_line_items and the return
BillFromCleaned(counted_md, counted, img, cleaned) ==
    LET cleaned_md ==
            [counted_md EXCEPT
                !.warnings = @ \o [i \in 1..Len(cleaned.report.warnings) |->
                                      AmountWarning(cleaned.report.warnings[i])]]
        validated == validate_extracted_items(cleaned.items)
        validated_md ==
            [cleaned_md EXCEPT
                !.keys = @ \cup {"accuracy_score", "validation_issues"},
                !.accuracy_score = validated.report.accuracy_score]
        calc_total == sum_line_items(validated.items)
        bill_total == Get(img.result, "bill_total", NoNumber)
    IN  FinishBill(validated.items, calc_total, bill_total, validated_md,
                   counted,
                   img.stages \o <<"convert", "validate", "accuracy", "sum">>)

\* extract_bill from the converted items on: the return without items, or
\* validate_and_clean and what follows it
BillFromRaw(counted_md, counted, img, raw_items) ==
    IF raw_items = <<>>
    THEN NoItemsReturn(counted_md, counted, img.result, Append(img.stages, "convert"))
    ELSE BillFromCleaned(counted_md, counted, img, validate_and_clean(raw_items))

\* extract_bill from the return of extract_from_image on, with
\* self.total_tokens = tokens: the except branch if it raised, else the
\* usage is added to the counter and copied into the metadata, and the
\* line items are converted
BillFromImage(tokens, img) ==
    IF img.raised
    THEN ErrorReturn(NewMetadata, tokens, img.exc, img.stages)
    ELSE BillFromRaw([NewMetadata EXCEPT !.token_usage = tokens + img.usage],
                     tokens + img.usage, img,
                     convert_to_internal_format(
                         Get(img.result, "line_items", ListValue(<<>>))))

\* ExtractionOrchestrator.extract_bill with self.total_tokens = tokens:
\* the returned items, total and metadata, self.total_tokens after the
\* call, the stages run, the calls of the vision collaborator and the
\* applications of corrections
extract_bill(tokens, vision, has_json5) ==
    BillFromImage(tokens, extract_from_image(vision, has_json5))

-----------------------------------------------------------------------------
(* Specification of the guard: filter a list, then filter what was kept *)

OrdinaryRow == FullItem(NameTabA, 1000, 1000, 1000)

GuardPool == {
    AmountOnlyItem(NameTotal, 572030),
    AmountOnlyItem(NameTabA, 448000),
    FullItem(NameCoffee, 1000, 0, 3000),
    FullItem(NameTaxi, 0, 0, 6000),
    FullItem(NameCharge, 2000, 1000, 2000),
    FullItem(NameMetnuro, 1000, -1000, -1000),
    FullItem(NameMetnuro, 3000, -1000, -3000),
    FullItem(NameTabA, 0, 0, 0),
    FullItem(NameTabA, 1000, 0, 5),
    FullItem(NameTabA, 1000, 6000, 6000),
    FullItem(NameTabA, 1000, 4000, 4000),
    FullItem(NameTabA, 1000, 5000, 5000),
    FullItem(NameTabA, 1000, 10000, 10000) }

RECURSIVE SeqsUpTo(_, _)
SeqsUpTo(S, n) ==
    IF n = 0 THEN {<<>>}
    ELSE LET shorter == SeqsUpTo(S, n - 1)
         IN  shorter \cup {Append(s, x) : s \in {t \in shorter : Len(t) = n - 1}, x \in S}

Repeat(x, n) == [i \in 1..n |-> x]

GuardInputs ==
    {Repeat(OrdinaryRow, r) \o t : r \in 0..MaxRepeat, t \in SeqsUpTo(GuardPool, MaxTail)}

ReconIdle ==
    /\ sum_items = <<>>
    /\ calculated_total = 0
    /\ actual_total = 0
    /\ threshold = 0
    /\ outcome = [is_match |-> FALSE, discrepancy |-> 0, status |-> "none"]
    /\ r_pc = "idle"
    /\ amount_check = [is_valid |-> TRUE, errors |-> <<>>]

NoReport ==
    [original_count |-> 0, cleaned |-> 0, removed |-> <<>>, warnings |-> <<>>,
     skipped |-> 0, calc_errors |-> <<>>, final_count |-> 0]

NameIdle ==
    /\ raw_name = <<>>
    /\ cleaned_name = <<>>
    /\ n_pc = "idle"

ValidateIdle ==
    /\ v_items = <<>>
    /\ v_rows = <<>>
    /\ v_out = <<>>
    /\ report = NoReport
    /\ v_pc = "idle"
    /\ NameIdle

NoResult == [EmptyDict EXCEPT !.notes = <<"not called">>]

\* no call of _parse_response on its own
ParseQuiet ==
    /\ response_text = [none |-> FALSE, toks |-> <<>>]
    /\ parsed = NoResult
    /\ stages = <<>>
    /\ taken = "idle"
    /\ p_pc = "idle"

BillIdle ==
    /\ total_tokens = 0
    /\ o_calls = <<>>

FixIdle ==
    /\ fix_items = <<>>
    /\ fix_list = <<>>
    /\ fix_trace = <<>>
    /\ fix_out = <<>>
    /\ fix_pc = "idle"

NoResponse == [token_usage |-> 0, pagewise_line_items |-> <<>>, is_success |-> FALSE]

PdfIdle ==
    /\ pages = <<>>
    /\ w_pc = <<>>
    /\ w_img = <<>>
    /\ w_items = <<>>
    /\ w_tmp = <<>>
    /\ w_result = <<>>
    /\ completed = <<>>
    /\ c_pc = "idle"
    /\ response = NoResponse
    /\ tokens_before = 0

ParseIdle ==
    /\ response_text = [none |-> FALSE, toks |-> <<>>]
    /\ json5 = FALSE
    /\ parsed = NoResult
    /\ stages = <<>>
    /\ taken = "idle"
    /\ p_pc = "idle"

GuardIdle ==
    /\ g_items = <<>>
    /\ clean_items = <<>>
    /\ removed_items = <<>>
    /\ g_log = <<>>
    /\ g_pass = 0
    /\ clean_again = <<>>
    /\ removed_again = <<>>

GuardInit ==
    /\ g_items \in GuardInputs
    /\ clean_items = <<>>
    /\ removed_items = <<>>
    /\ g_log = <<>>
    /\ g_pass = 0
    /\ clean_again = <<>>
    /\ removed_again = <<>>

\* clean, removed = DoubleCountingGuard.filter_double_counts(items)
FilterCall ==
    /\ g_pass = 0
    /\ LET out == filter_double_counts(g_items)
       IN  /\ clean_items' = out.clean
           /\ removed_items' = out.removed
           /\ g_log' = out.log
    /\ g_pass' = 1
    /\ UNCHANGED <<g_items, clean_again, removed_again>>
    /\ UNCHANGED <<reconVars, validateVars, parseVars, billVars, pdfVars, fixVars>>

\* the kept list is passed to filter_double_counts again
FilterAgain ==
    /\ g_pass = 1
    /\ LET out == filter_double_counts(clean_items)
       IN  /\ clean_again' = out.clean
           /\ removed_again' = out.removed
    /\ g_pass' = 2
    /\ UNCHANGED <<g_items, clean_items, removed_items, g_log>>
    /\ UNCHANGED <<reconVars, validateVars, parseVars, billVars, pdfVars, fixVars>>

GuardNext == FilterCall \/ FilterAgain

\* the state before the call: the other components are idle
GuardStart == GuardInit /\ ReconIdle /\ ValidateIdle /\ ParseIdle /\ BillIdle /\ PdfIdle /\ FixIdle

SpecGuard == GuardStart /\ [][GuardNext]_vars

-----------------------------------------------------------------------------
(* Specification of the engine: sum a list and reconcile the sum with a   *)
(* claimed total, or reconcile two given totals                           *)

\* a record that holds only item_amount
ItemAmountOnly(amt) ==
    [keys |-> {"item_amount"}, bad |-> {},
     item_name |-> <<>>, item_quantity |-> 0, item_rate |-> 0,
     item_amount |-> amt, amount |-> 0]

\* a record whose item_amount is no number
ItemAmountBad ==
    [keys |-> {"item_amount"}, bad |-> {"item_amount"},
     item_name |-> <<>>, item_quantity |-> 0, item_rate |-> 0,
     item_amount |-> 0, amount |-> 0]

SumPool == {
    AmountOnlyItem(<<>>, 448000),
    AmountOnlyItem(<<>>, 124030),
    AmountOnlyItem(<<>>, 838120),
    ItemAmountOnly(448000),
    ItemAmountOnly(124030),
    ItemAmountOnly(5),
    ItemAmountOnly(-15),
    ItemAmountBad,
    FullItem(<<>>, 14000, 32000, 448000),
    FullItem(<<>>, 14000, 32000, 450000),
    FullItem(<<>>, 14000, 32000, 500000) }

\* longest list summed
MaxSumItems == 3

Totals == {-1000, 0, 100000, 100010, 572030, 1699840, 1700000, 1700500}

ReconInit ==
    /\ sum_items \in SeqsUpTo(SumPool, MaxSumItems)
    /\ actual_total \in Totals
    /\ threshold \in {DefaultThreshold, TestThreshold}
    /\ calculated_total = 0
    /\ outcome = [is_match |-> FALSE, discrepancy |-> 0, status |-> "none"]
    /\ r_pc = "start"
    /\ amount_check = [is_valid |-> TRUE, errors |-> <<>>]

\* calculated_total = ReconciliationEngine.sum_line_items(items)
SumCall ==
    /\ r_pc = "start"
    /\ calculated_total' = sum_line_items(sum_items)
    /\ r_pc' = "summed"
    /\ UNCHANGED <<sum_items, actual_total, threshold, outcome, amount_check>>
    /\ UNCHANGED <<guardVars, validateVars, parseVars, billVars, pdfVars, fixVars>>

\* reconciler.reconcile(calculated_total, actual_total) on the sum
ReconcileSum ==
    /\ r_pc = "summed"
    /\ outcome' = reconcile(threshold, calculated_total, actual_total)
    /\ r_pc' = "done"
    /\ UNCHANGED <<sum_items, calculated_total, actual_total, threshold, amount_check>>
    /\ UNCHANGED <<guardVars, validateVars, parseVars, billVars, pdfVars, fixVars>>

\* reconciler.reconcile(calculated_total, actual_total) on two given
\* totals, no list being summed
ReconcileDirect ==
    /\ r_pc = "start"
    /\ \E c \in Totals :
          /\ calculated_total' = c
          /\ outcome' = reconcile(threshold, c, actual_total)
    /\ sum_items' = <<>>
    /\ r_pc' = "done"
    /\ UNCHANGED <<actual_total, threshold, amount_check>>
    /\ UNCHANGED <<guardVars, validateVars, parseVars, billVars, pdfVars, fixVars>>

\* is_valid, errors = ReconciliationEngine.validate_line_item_amounts(items)
ValidateAmounts ==
    /\ r_pc = "start"
    /\ amount_check' = validate_line_item_amounts(sum_items)
    /\ r_pc' = "checked"
    /\ UNCHANGED <<sum_items, calculated_total, actual_total, threshold, outcome>>
    /\ UNCHANGED <<guardVars, validateVars, parseVars, billVars, pdfVars, fixVars>>

ReconNext == SumCall \/ ReconcileSum \/ ReconcileDirect \/ ValidateAmounts

\* the state before the call: the other components are idle
ReconStart == ReconInit /\ GuardIdle /\ ValidateIdle /\ ParseIdle /\ BillIdle /\ PdfIdle /\ FixIdle

SpecRecon == ReconStart /\ [][ReconNext]_vars

-----------------------------------------------------------------------------
(* Specification of the validator: one call of validate_and_clean          *)

NameLiviRaw ==
    <<" "," ","L","i","v","i"," ","3","0","0","m","g"," ","T","a","b"," "," ">>
NameLivi == <<"L","i","v","i"," ","3","0","0","m","g"," ","T","a","b">>

\* a row whose rate is no number
RowBadRate ==
    [keys |-> {"item_name", "item_quantity", "item_rate", "item_amount"},
     bad |-> {"item_rate"},
     item_name |-> NameTabA, item_quantity |-> 1000, item_rate |-> 0,
     item_amount |-> 1000, amount |-> 0]

\* a row that holds no item_rate
RowNoRate ==
    [keys |-> {"item_name", "item_quantity", "item_amount"}, bad |-> {},
     item_name |-> NameMetnuro, item_quantity |-> 2000, item_rate |-> 0,
     item_amount |-> 124030, amount |-> 0]

ValidatePool == {
    FullItem(NameLiviRaw, 14000, 32000, 448000),
    FullItem(NameTabA, 14000, 32000, 500000),
    FullItem(NameTabA, 14000, 32000, 450000),
    FullItem(NameTabA, 14000, 32000, 448010),
    FullItem(NameTabA, 500, 10, 20),
    FullItem(NameMetnuro, 1000, 0, 5000),
    FullItem(NameTotal, 1000, 572030, 572030),
    AmountOnlyItem(NameTotal, 572030),
    RowBadRate,
    RowNoRate }

\* longest list validated
MaxValidateItems == 3

ValidateInit ==
    /\ v_items \in SeqsUpTo(ValidatePool, MaxValidateItems)
    /\ v_rows = <<>>
    /\ v_out = <<>>
    /\ report = NoReport
    /\ v_pc = "start"
    /\ NameIdle

\* cleaned, report = validator.validate_and_clean(items, bill_total)
ValidateCall ==
    /\ v_pc = "start"
    /\ LET r == validate_and_clean(v_items)
       IN  /\ v_rows' = r.rows
           /\ v_out' = r.items
           /\ report' = r.report
    /\ v_pc' = "done"
    /\ UNCHANGED <<v_items, raw_name, cleaned_name, n_pc>>
    /\ UNCHANGED <<guardVars, reconVars, parseVars, billVars, pdfVars, fixVars>>

ValidateNext == ValidateCall

\* the state before the call: the other components are idle
ValidateStart == ValidateInit /\ GuardIdle /\ ReconIdle /\ ParseIdle /\ BillIdle /\ PdfIdle /\ FixIdle

SpecValidate == ValidateStart /\ [][ValidateNext]_vars

-----------------------------------------------------------------------------
(* Specification of the name cleaner: one call of clean_item_name          *)

NameItemRaw ==
    <<"-","-","-","I","t","e","m"," ","N","a","m","e","-","-","-">>
NameItem == <<"I","t","e","m"," ","N","a","m","e">>

\* the characters of the names tried: whitespace, the two noise characters,
\* three letters of the replacement table, a digit and a plain letter
NameChars == {" ", "\t", "-", "*", "l", "O", "S", "3", "a"}

\* longest name tried
MaxNameLen == 4

CleanInit ==
    /\ raw_name \in SeqsUpTo(NameChars, MaxNameLen) \cup {NameLiviRaw, NameItemRaw}
    /\ cleaned_name = <<>>
    /\ n_pc = "start"
    /\ v_items = <<>>
    /\ v_rows = <<>>
    /\ v_out = <<>>
    /\ report = NoReport
    /\ v_pc = "idle"

\* cleaned = DataCleaner.clean_item_name(name)
CleanName ==
    /\ n_pc = "start"
    /\ cleaned_name' = clean_item_name(raw_name)
    /\ n_pc' = "done"
    /\ UNCHANGED <<v_items, v_rows, v_out, report, v_pc, raw_name>>
    /\ UNCHANGED <<guardVars, reconVars, parseVars, billVars, pdfVars, fixVars>>

CleanNext == CleanName

\* the state before the call: the other components are idle
CleanStart == CleanInit /\ GuardIdle /\ ReconIdle /\ ParseIdle /\ BillIdle /\ PdfIdle /\ FixIdle

SpecClean == CleanStart /\ [][CleanNext]_vars

-----------------------------------------------------------------------------
(* Specification of the parser: one call of _parse_response on a response *)
(* of the prompted format, damaged in up to MaxEdits places and possibly  *)
(* wrapped in prose                                                       *)

NameA == <<"A">>
NoteN == <<"n">>
ReasonR == <<"r">>

\* {"line_items": [{"item_name": "A", "quantity": 1, "rate": 2, "amount": 2}]}
DocOne ==
    <<Tok("{"), Tok("items"), Tok("["), Tok("{"), TokStr("item_name", NameA), Tok(","),
      TokNum("quantity", 1000), Tok(","), TokNum("rate", 2000), Tok(","),
      TokNum("amount", 2000), Tok("}"), Tok("]"), Tok("}")>>

\* {"line_items": [{"item_name": "A", "amount": 2},
\*                 {"item_name": "A", "quantity": 3}], "bill_total": 5}
DocTwo ==
    <<Tok("{"), Tok("items"), Tok("["), Tok("{"), TokStr("item_name", NameA), Tok(","),
      TokNum("amount", 2000), Tok("}"), Tok(","), Tok("{"), TokStr("item_name", NameA),
      Tok(","), TokNum("quantity", 3000), Tok("}"), Tok("]"), Tok(","),
      TokNum("bill_total", 5000), Tok("}")>>

\* {"line_items": null}
DocNull == <<Tok("{"), Tok("items"), Tok("null"), Tok("}")>>

\* {"extraction_reasoning": "r", "line_items": [], "notes": "n"}
DocNoItems ==
    <<Tok("{"), TokStr("extraction_reasoning", ReasonR), Tok(","), Tok("items"),
      Tok("["), Tok("]"), Tok(","), TokStr("notes", NoteN), Tok("}")>>

\* {}
DocEmpty == <<Tok("{"), Tok("}")>>

\* a response that holds no JSON
DocProse == <<Tok("txt")>>

\* {"line_items": [{"item_name": "A"}]}
DocNameOnly ==
    <<Tok("{"), Tok("items"), Tok("["), Tok("{"), TokStr("item_name", NameA), Tok("}"),
      Tok("]"), Tok("}")>>

BaseDocs == {DocOne, DocTwo, DocNull, DocNoItems, DocEmpty, DocProse, DocNameOnly}

EditTokens == {Tok(","), Tok("nl"), Tok("}")}

\* t with one token removed, or one token of EditTokens put in
EditsOf(t) ==
    {SubSeq(t, 1, i - 1) \o SubSeq(t, i + 1, Len(t)) : i \in 1..Len(t)}
    \cup {SubSeq(t, 1, i) \o <<e>> \o SubSeq(t, i + 1, Len(t)) :
             i \in 0..Len(t), e \in EditTokens}

RECURSIVE EditsUpTo(_, _)
EditsUpTo(S, n) ==
    IF n = 0 THEN S
    ELSE LET less == EditsUpTo(S, n - 1)
         IN  less \cup UNION {EditsOf(t) : t \in less}

\* damaged places of a response
MaxEdits == 1

Wrapped(t, before, after) ==
    (IF before THEN <<Tok("txt")>> ELSE <<>>) \o t \o (IF after THEN <<Tok("txt")>> ELSE <<>>)

\* every item_name value is followed by a comma or a closing brace.  The
\* second pattern of _extract_values_safely (broken_names) then finds the
\* names of the first pattern again and adds none, and the third
\* (aggressive_pattern) runs only when the first found no item_name field.
NamesClosed(t) ==
    \A i \in 1..Len(t) :
        t[i].k = "item_name" =>
            LET j == SkipWs(t, i + 1)
            IN  j <= Len(t) /\ t[j].k \in {",", "}"}

ParseInputs ==
    {[none |-> FALSE, toks |-> Wrapped(t, b, a)] :
        t \in {e \in EditsUpTo(BaseDocs, MaxEdits) : NamesClosed(e)},
        b \in BOOLEAN, a \in BOOLEAN}
    \cup {[none |-> TRUE, toks |-> <<>>]}

ParseInit ==
    /\ response_text \in ParseInputs
    /\ json5 \in BOOLEAN
    /\ parsed = NoResult
    /\ stages = <<>>
    /\ taken = "idle"
    /\ p_pc = "start"

\* extraction_result = self._parse_response(response_text)
ParseCall ==
    /\ p_pc = "start"
    /\ LET r == parse_response(response_text, json5)
       IN  /\ parsed' = r.result
           /\ stages' = r.stages
           /\ taken' = r.taken
    /\ p_pc' = "done"
    /\ UNCHANGED <<response_text, json5>>
    /\ UNCHANGED <<guardVars, reconVars, validateVars, billVars, pdfVars, fixVars>>

ParseNext == ParseCall

\* the state before the call: the other components are idle
ParseStart == ParseInit /\ GuardIdle /\ ReconIdle /\ ValidateIdle /\ BillIdle /\ PdfIdle /\ FixIdle

SpecParse == ParseStart /\ [][ParseNext]_vars

-----------------------------------------------------------------------------
(* Specification of the orchestrator: extract_bill is called up to MaxCalls *)
(* times, one call after the other, on one ExtractionOrchestrator          *)

NameBlank == <<" ">>

\* two items and a summary row, with a claimed total the items do not reach
DocBill ==
    <<Tok("{"), Tok("items"), Tok("["),
      Tok("{"), TokStr("item_name", NameA), Tok(","), TokNum("quantity", 2000), Tok(","),
      TokNum("rate", 3000), Tok(","), TokNum("amount", 6000), Tok("}"), Tok(","),
      Tok("{"), TokStr("item_name", NameTabA), Tok(","), TokNum("quantity", 1000),
      Tok(","), TokNum("rate", 0), Tok(","), TokNum("amount", 5000), Tok("}"), Tok(","),
      Tok("{"), TokStr("item_name", NameTotal), Tok(","), TokNum("amount", 11000),
      Tok("}"), Tok("]"), Tok(","), TokNum("bill_total", 12000), Tok(","),
      TokStr("notes", NoteN), Tok("}")>>

\* one item whose amount is its quantity times its rate, and that total
DocExact ==
    <<Tok("{"), Tok("items"), Tok("["),
      Tok("{"), TokStr("item_name", NameA), Tok(","), TokNum("quantity", 2000), Tok(","),
      TokNum("rate", 3000), Tok(","), TokNum("amount", 6000), Tok("}"),
      Tok("]"), Tok(","), TokNum("bill_total", 6000), Tok("}")>>

\* an item with a blank name beside a named one
DocBlankName ==
    <<Tok("{"), Tok("items"), Tok("["),
      Tok("{"), TokStr("item_name", NameBlank), Tok(","), TokNum("amount", 2000), Tok("}"),
      Tok(","), Tok("{"), TokStr("item_name", NameA), Tok(","), TokNum("amount", 2000),
      Tok("}"), Tok("]"), Tok("}")>>

\* line_items is an object, not a list
DocObject ==
    <<Tok("{"), Tok("items"), Tok("{"), TokStr("item_name", NameA), Tok("}"), Tok("}")>>

\* DocOne with a comma before the closing bracket, wrapped in prose
DocDamaged ==
    <<Tok("txt")>> \o SubSeq(DocOne, 1, 12) \o <<Tok(",")>> \o SubSeq(DocOne, 13, 14)

BillTexts ==
    {[none |-> FALSE, toks |-> t] :
        t \in {DocOne, DocTwo, DocNull, DocNoItems, DocEmpty, DocProse, DocBill,
               DocExact, DocBlankName, DocObject, DocDamaged}}
    \cup {[none |-> TRUE, toks |-> <<>>]}

\* the usage a response reports, if any
Usages == {NoNumber, Number(3), Number(5)}

VisionOutcomes == {Raises} \cup {Responds(t, u) : t \in BillTexts, u \in Usages}

\* extract_bill calls made on the orchestrator
MaxCalls == 2

\* ExtractionOrchestrator.__init__
BillInit ==
    /\ total_tokens = 0
    /\ o_calls = <<>>
    /\ json5 \in BOOLEAN

\* cleaned_items, reconciled_total, metadata = orchestrator.extract_bill(...)
ExtractBill ==
    /\ Len(o_calls) < MaxCalls
    /\ \E vision \in VisionOutcomes :
          /\ o_calls' = Append(o_calls, [vision |-> vision,
                                          out |-> extract_bill(total_tokens, vision, json5)])
          /\ total_tokens' = o_calls'[Len(o_calls')].out.tokens
    /\ UNCHANGED <<guardVars, reconVars, validateVars, parseVars, pdfVars, fixVars>>

BillNext == ExtractBill

\* the state before the first call: the other components are idle
BillStart == BillInit /\ GuardIdle /\ ReconIdle /\ ValidateIdle /\ ParseQuiet /\ PdfIdle /\ FixIdle

SpecBill == BillStart /\ [][BillNext]_vars

-----------------------------------------------------------------------------
(* Specification of the corrections: one call of _apply_corrections        *)

NameB == <<"B">>
NameC == <<"C">>
ActAdd == <<"a","d","d">>
ActAddUpper == <<"A","D","D">>
ActRemove == <<"r","e","m","o","v","e">>
ActModify == <<"m","o","d","i","f","y">>
ActSkip == <<"s","k","i","p">>
AllKeys == {"action", "item_name", "quantity", "rate", "amount"}

FixItemPool == {
    FullItem(NameA, 1000, 2000, 2000),
    FullItem(NameA, 3000, 1000, 3000),
    FullItem(NameB, 2000, 3000, 6000) }

FixPool == {
    Correction(AllKeys, {}, ActAdd, NameA, 5000, 1000, 5000),
    Correction({"action", "item_name"}, {}, ActAddUpper, NameC, 0, 0, 0),
    Correction({"action", "amount"}, {}, ActAdd, <<>>, 0, 0, 7000),
    Correction({"action", "item_name"}, {}, ActRemove, NameA, 0, 0, 0),
    Correction({"action", "item_name"}, {}, ActRemove, NameC, 0, 0, 0),
    Correction({"action"}, {}, ActRemove, <<>>, 0, 0, 0),
    Correction(AllKeys, {}, ActModify, NameA, 4000, 500, 2000),
    Correction({"action", "item_name", "amount"}, {}, ActModify, NameA, 0, 0, 9000),
    Correction(AllKeys, {"rate"}, ActModify, NameB, 0, 0, 8000),
    Correction(AllKeys, {}, ActModify, NameC, 4000, 500, 2000),
    Correction(AllKeys, {}, ActSkip, NameA, 4000, 500, 2000),
    Correction({"item_name", "amount"}, {}, <<>>, NameA, 0, 0, 9000) }

\* longest item list and longest list of corrections
MaxFixItems == 2
MaxFixes == 2

FixInit ==
    /\ fix_items \in SeqsUpTo(FixItemPool, MaxFixItems)
    /\ fix_list \in SeqsUpTo(FixPool, MaxFixes)
    /\ fix_trace = <<>>
    /\ fix_out = <<>>
    /\ fix_pc = "start"

\* items = self._apply_corrections(items, corrections)
ApplyCorrections ==
    /\ fix_pc = "start"
    /\ fix_trace' = apply_corrections(fix_items, fix_list)
    /\ fix_out' = fix_trace'[Len(fix_trace')]
    /\ fix_pc' = "done"
    /\ UNCHANGED <<fix_items, fix_list>>
    /\ UNCHANGED <<guardVars, reconVars, validateVars, parseVars, billVars, pdfVars>>

FixNext == ApplyCorrections

\* the state before the call: the other components are idle
FixStart ==
    FixInit /\ GuardIdle /\ ReconIdle /\ ValidateIdle /\ ParseIdle /\ BillIdle /\ PdfIdle

SpecFix == FixStart /\ [][FixNext]_vars

-----------------------------------------------------------------------------
(* process_pdf_extraction: one worker thread per page on the shared
   orchestrator, then the aggregation *)

\* the dict process_single_page returns: success is the truth of
\* cleaned_items, token_usage is metadata['token_usage']
PageResult(page_no, items, token_usage) ==
    [page_no |-> page_no, bill_items |-> items, token_usage |-> token_usage,
     success |-> items # <<>>]

NotReturned == [page_no |-> 0, bill_items |-> <<>>, token_usage |-> 0, success |-> FALSE]

\* the results list built from as_completed: the pages' results in the order
\* of completion
ResultsOf(done, result) == [k \in 1..Len(done) |-> result[done[k]]]

\* sorted(results, key=lambda x: x['page_no'])
SortedByPage(results) ==
    [k \in 1..Len(results) |->
        CHOOSE r \in {results[j] : j \in 1..Len(results)} :
            Cardinality({j \in 1..Len(results) : results[j].page_no < r.page_no}) = k - 1]

PageLineItems(result) == [page_no |-> result.page_no, bill_items |-> result.bill_items]

RECURSIVE AggregateLoop_StopAtFailure(_, _, _)
\* the loop over the results given up at the first page without success
AggregateLoop_StopAtFailure(results, token_usage, pagewise_items) ==
    IF results = <<>> \/ ~Head(results).success
    THEN [token_usage |-> token_usage, pagewise_items |-> pagewise_items]
    ELSE AggregateLoop_StopAtFailure(Tail(results),
                                     token_usage + Head(results).token_usage,
                                     Append(pagewise_items, PageLineItems(Head(results))))

RECURSIVE AggregateLoop(_, _, _)
\* the loop over the results: token usage is added for every page, a
\* PageLineItems is appended for every page with success
AggregateLoop(results, token_usage, pagewise_items) ==
    IF results = <<>>
    THEN [token_usage |-> token_usage, pagewise_items |-> pagewise_items]
    ELSE LET result == Head(results)
         IN  AggregateLoop(Tail(results),
                           token_usage + result.token_usage,
                           IF result.success
                           THEN Append(pagewise_items, PageLineItems(result))
                           ELSE pagewise_items)

\* the aggregation over the results in the order of completion
AggregateResults_AsCompleted(results) ==
    LET agg == AggregateLoop(results, 0, <<>>)
    IN  [token_usage |-> agg.token_usage,
         pagewise_line_items |-> agg.pagewise_items,
         is_success |-> agg.pagewise_items # <<>>]

\* the aggregation and the BillExtractionResponse built from it: without
\* items the response carries the token usage and an error, no data
AggregateResults(results) ==
    LET agg == AggregateLoop(SortedByPage(results), 0, <<>>)
    IN  [token_usage |-> agg.token_usage,
         pagewise_line_items |-> agg.pagewise_items,
         is_success |-> agg.pagewise_items # <<>>]

-----------------------------------------------------------------------------
(* Specification of the PDF request *)

\* pages of a document
MaxPages == 2

\* the counter earlier requests have left in the shared orchestrator
EarlierTokens == 4

\* what the vision collaborator answers for a page
PageOutcomes ==
    {Raises,
     Responds([none |-> FALSE, toks |-> DocExact], Number(5)),
     Responds([none |-> FALSE, toks |-> DocExact], Number(3)),
     Responds([none |-> FALSE, toks |-> DocProse], Number(3))}

PageNos == 1..Len(pages)

\* extraction_result before extract_from_image has returned
NoImage == [raised |-> FALSE, exc |-> "", stages |-> <<>>, result |-> EmptyDict, usage |-> 0]

\* image_list after the conversion, the futures submitted
PdfInit ==
    /\ \E n \in 1..MaxPages :
          /\ pages \in [1..n -> PageOutcomes]
          /\ w_pc = [p \in 1..n |-> "start"]
          /\ w_img = [p \in 1..n |-> NoImage]
          /\ w_items = [p \in 1..n |-> <<>>]
          /\ w_tmp = [p \in 1..n |-> 0]
          /\ w_result = [p \in 1..n |-> NotReturned]
    /\ completed = <<>>
    /\ c_pc = "waiting"
    /\ response = NoResponse
    /\ total_tokens \in {0, EarlierTokens}
    /\ tokens_before = total_tokens
    /\ o_calls = <<>>

\* generate_content of the worker of page p returns or raises, and with it
\* extract_from_image.  The items extract_bill returns depend on the
\* extraction_result alone, not on the shared counter, and are put down
\* here.
ImageReturns(p) ==
    /\ w_pc[p] = "start"
    /\ w_img' = [w_img EXCEPT ![p] = extract_from_image(pages[p], json5)]
    /\ w_items' = [w_items EXCEPT ![p] = BillFromImage(0, w_img'[p]).items]
    /\ w_pc' = [w_pc EXCEPT ![p] = "image"]
    /\ UNCHANGED <<pages, w_tmp, w_result, completed, c_pc, response, total_tokens>>
    /\ UNCHANGED <<guardVars, reconVars, validateVars, parseVars, o_calls, tokens_before, fixVars>>

\* the worker of page p got an exception from extract_from_image:
\* extract_bill returns the initial token_usage and no items
PageFails(p) ==
    /\ w_pc[p] = "image"
    /\ w_img[p].raised
    /\ w_pc' = [w_pc EXCEPT ![p] = "done"]
    /\ w_result' = [w_result EXCEPT ![p] = PageResult(p, w_items[p], 0)]
    /\ completed' = Append(completed, p)
    /\ UNCHANGED <<pages, w_img, w_items, w_tmp, c_pc, response, total_tokens>>
    /\ UNCHANGED <<guardVars, reconVars, validateVars, parseVars, o_calls, tokens_before, fixVars>>

\* self.total_tokens['total_tokens'] += ...: the worker of page p loads the
\* counter
LoadCounter(p) ==
    /\ w_pc[p] = "image"
    /\ ~w_img[p].raised
    /\ w_tmp' = [w_tmp EXCEPT ![p] = total_tokens]
    /\ w_pc' = [w_pc EXCEPT ![p] = "add"]
    /\ UNCHANGED <<pages, w_img, w_items, w_result, completed, c_pc, response,
                   total_tokens>>
    /\ UNCHANGED <<guardVars, reconVars, validateVars, parseVars, o_calls, tokens_before, fixVars>>

\* ... += usage_data.get('total_tokens', 0): the sum is stored
StoreCounter(p) ==
    /\ w_pc[p] = "add"
    /\ total_tokens' = w_tmp[p] + w_img[p].usage
    /\ w_pc' = [w_pc EXCEPT ![p] = "copy"]
    /\ UNCHANGED <<pages, w_img, w_items, w_tmp, w_result, completed, c_pc, response>>
    /\ UNCHANGED <<guardVars, reconVars, validateVars, parseVars, o_calls, tokens_before, fixVars>>

\* metadata['token_usage'] = {... self.total_tokens ...}, then the return
\* of extract_bill and of process_single_page
PageReturns(p) ==
    /\ w_pc[p] = "copy"
    /\ w_result' = [w_result EXCEPT ![p] = PageResult(p, w_items[p], total_tokens)]
    /\ w_pc' = [w_pc EXCEPT ![p] = "done"]
    /\ completed' = Append(completed, p)
    /\ UNCHANGED <<pages, w_img, w_items, w_tmp, c_pc, response, total_tokens>>
    /\ UNCHANGED <<guardVars, reconVars, validateVars, parseVars, o_calls, tokens_before, fixVars>>

\* the code after the `with` block of the executor, which is left when
\* every future is done
Aggregate ==
    /\ c_pc = "waiting"
    /\ \A p \in PageNos : w_pc[p] = "done"
    /\ response' = AggregateResults(ResultsOf(completed, w_result))
    /\ c_pc' = "responded"
    /\ UNCHANGED <<pages, w_pc, w_img, w_items, w_tmp, w_result, completed,
                   total_tokens>>
    /\ UNCHANGED <<guardVars, reconVars, validateVars, parseVars, o_calls, tokens_before, fixVars>>

PdfNext ==
    \/ \E p \in PageNos : ImageReturns(p)
    \/ \E p \in PageNos : PageFails(p)
    \/ \E p \in PageNos : LoadCounter(p)
    \/ \E p \in PageNos : StoreCounter(p)
    \/ \E p \in PageNos : PageReturns(p)
    \/ Aggregate

\* the state when the pages are submitted: the other components are idle
PdfStart == PdfInit /\ GuardIdle /\ ReconIdle /\ ValidateIdle /\ ParseIdle /\ FixIdle

SpecPdf == PdfStart /\ [][PdfNext]_vars

\* a step of the worker of page p inside extract_bill
WorkerStep(p) == PageFails(p) \/ LoadCounter(p) \/ StoreCounter(p) \/ PageReturns(p)

\* every worker thread and the coordinator get to run their own steps; the
\* return of generate_content is the collaborator's step and nothing in
\* extract_from_image forces it
PdfFairness ==
    /\ \A p \in 1..MaxPages : WF_vars(p \in PageNos /\ WorkerStep(p))
    /\ WF_vars(Aggregate)

SpecPdfLive == PdfStart /\ [][PdfNext]_vars /\ PdfFairness

-----------------------------------------------------------------------------
(* Claims about the guard *)

\* the rows of items at the positions where keep holds, in order
RECURSIVE SelectRows(_, _, _)
SelectRows(items, flags, want) ==
    IF items = <<>> THEN <<>>
    ELSE IF Head(flags) = want
         THEN <<Head(items)>> \o SelectRows(Tail(items), Tail(flags), want)
         ELSE SelectRows(Tail(items), Tail(flags), want)

IsKept(d) == d \in {"kept", "kept_keyword"}

KeptFlags == [i \in 1..Len(g_log) |-> IsKept(g_log[i])]

\* the rows accepted before position i of the argument
AcceptedBefore(i) ==
    SelectRows(SubSeq(g_items, 1, i - 1), SubSeq(KeptFlags, 1, i - 1), TRUE)

NameMatchesKeyword(item) == is_double_count_keyword(Lower(Get(item, "item_name", <<>>)))

IsAlnum(c) ==
    \/ \E i \in 1..Len(LowerCase) : LowerCase[i] = c \/ UpperCase[i] = c
    \/ c \in {"0","1","2","3","4","5","6","7","8","9"}

\* kw occurs in text with no letter or digit right before or right after it
StandaloneToken(text, kw) ==
    \E i \in 0..(Len(text) - Len(kw)) :
        /\ SubSeq(text, i + 1, i + Len(kw)) = kw
        /\ i = 0 \/ ~IsAlnum(text[i])
        /\ i + Len(kw) = Len(text) \/ ~IsAlnum(text[i + Len(kw) + 1])

\* C5: a row is a keyword removal candidate if and only if its lower-cased
\* name equals a configured keyword or holds one as a standalone token; a
\* name holding a keyword only inside a longer word is never removed by the
\* keyword rule.
C5_StandaloneTokenOnly ==
    g_pass >= 1 =>
        \A i \in 1..Len(g_items) :
            LET name == Strip(Lower(Get(g_items[i], "item_name", <<>>)))
            IN  (g_log[i] \in {"keyword", "kept_keyword"})
                    <=> (\E kw \in DOUBLE_COUNT_KEYWORDS : StandaloneToken(name, kw))

\* the outlier condition of the claim at position i, with "within 0.01"
\* read as a difference below 0.01
OutlierCondition(i) ==
    LET acc == AcceptedBefore(i)
        amount == Get(g_items[i], "item_amount", 0)
    IN  /\ Len(acc) >= 3
        /\ amount * Len(acc) > 5 * SumAmounts(acc)
        /\ Abs(amount - SumAmounts(acc)) < 10

\* C6 as stated: a non-keyword row is removed by the outlier rule if and
\* only if at least 3 rows are accepted before it, its amount is above 5
\* times their average and equals their sum within 0.01; keyword rows are
\* never removed by the outlier rule.
C6_OutlierAsStated ==
    g_pass >= 1 =>
        \A i \in 1..Len(g_items) :
            IF NameMatchesKeyword(g_items[i])
            THEN g_log[i] # "outlier"
            ELSE (g_log[i] = "outlier") <=> OutlierCondition(i)

\* C6 amended: as stated, and the sum of the accepted amounts is not zero.
C6_OutlierNonzeroSum ==
    g_pass >= 1 =>
        \A i \in 1..Len(g_items) :
            IF NameMatchesKeyword(g_items[i])
            THEN g_log[i] # "outlier"
            ELSE (g_log[i] = "outlier")
                    <=> (OutlierCondition(i) /\ SumAmounts(AcceptedBefore(i)) # 0)

\* C6 witness: six rows of 1.00 are accepted and a seventh row of 6.00 is
\* removed by the outlier rule
C6_Witness ==
    /\ g_pass = 1
    /\ Len(g_items) = 7
    /\ g_log = <<"kept", "kept", "kept", "kept", "kept", "kept", "outlier">>
    /\ Get(g_items[7], "item_amount", 0) = 6000

\* C7: filtering the kept list again keeps every row, in the same order,
\* and removes nothing.
C7_Idempotent ==
    g_pass = 2 => clean_again = clean_items /\ removed_again = <<>>

\* C7 witness: a second pass has run over a kept list of at least four rows
\* that the first pass got by removing a keyword row and an outlier row
C7_Witness ==
    /\ g_pass = 2
    /\ Len(clean_items) >= 4
    /\ \E i \in 1..Len(g_log) : g_log[i] = "keyword"
    /\ \E i \in 1..Len(g_log) : g_log[i] = "outlier"

-----------------------------------------------------------------------------
(* Claims about the engine *)

\* C8: reconcile returns discrepancy = |computed - claimed| >= 0; the status
\* is exact_match, with discrepancy 0, when the two are equal; otherwise
\* within_threshold when claimed > 0 and discrepancy / claimed <= threshold
\* percent; otherwise mismatch; is_match holds exactly for exact_match and
\* within_threshold.  448.00 + 124.03 summed against 572.03 is exact_match.
C8_Reconcile ==
    r_pc = "done" =>
        LET d == Abs(calculated_total - actual_total)
        IN  /\ outcome.discrepancy = d
            /\ outcome.discrepancy >= 0
            /\ outcome.status =
                  IF calculated_total = actual_total THEN "exact_match"
                  ELSE IF actual_total > 0
                          /\ d <= (threshold * actual_total) \div (100 * 100)
                       THEN "within_threshold"
                       ELSE "mismatch"
            /\ outcome.is_match <=> outcome.status \in {"exact_match", "within_threshold"}
            /\ (sum_items = <<ItemAmountOnly(448000), ItemAmountOnly(124030)>>
                    /\ actual_total = 572030)
                  => outcome.status = "exact_match"

\* C8 witness: the sum of 448.00 and 124.03 has been reconciled with 572.03
\* as exact_match
C8_Witness ==
    /\ r_pc = "done"
    /\ sum_items = <<ItemAmountOnly(448000), ItemAmountOnly(124030)>>
    /\ calculated_total = 572030
    /\ actual_total = 572030
    /\ outcome = [is_match |-> TRUE, discrepancy |-> 0, status |-> "exact_match"]

\* C8 witness of the threshold: 100.01 against 100.00 at 0.01 percent is
\* within_threshold, with the quotient equal to the threshold
C8_WitnessThreshold ==
    /\ r_pc = "done"
    /\ calculated_total = 100010 /\ actual_total = 100000
    /\ threshold = DefaultThreshold
    /\ outcome.status = "within_threshold"

\* the amount a record stores, under item_amount or under amount
StoredAmount(item) ==
    IF "item_amount" \in item.keys THEN item.item_amount
    ELSE IF "amount" \in item.keys THEN item.amount ELSE 0

RECURSIVE SumStored(_)
SumStored(items) ==
    IF items = <<>> THEN 0 ELSE StoredAmount(Head(items)) + SumStored(Tail(items))

\* rounding half-up (ties away from zero) of mills to whole cents
HalfUpCents(x) ==
    LET c == (Abs(x) + 5) \div 10 IN IF x < 0 THEN -(10 * c) ELSE 10 * c

\* C9: sum_line_items(items) is the exact sum of the items' amounts rounded
\* half-up to 2 decimals, also for records that store the amount under the
\* key `amount` (448.00 + 124.03 + 838.12 gives 1410.15).
C9_SumOfAmounts ==
    (r_pc \in {"summed"} /\ \A i \in 1..Len(sum_items) : sum_items[i].bad = {})
        => calculated_total = HalfUpCents(SumStored(sum_items))

-----------------------------------------------------------------------------
(* Claims about the validator *)

\* quantity * rate, in millionths, rounded half-up to whole cents, in mills
HalfUpProduct(q, r) ==
    LET c == (Abs(q * r) + 5000) \div 10000
    IN  IF q * r < 0 THEN -(10 * c) ELSE 10 * c

NonzeroRateRows ==
    {i \in 1..Len(v_rows) :
        v_rows[i].status = "ok" /\ Get(v_items[i], "item_rate", 0) # 0}

WarnedCount == Cardinality({i \in 1..Len(v_rows) : v_rows[i].warned})

\* C10 as stated: for a row with a nonzero rate the amount is replaced by
\* quantity * rate rounded half-up to 2 decimals, with one warning, exactly
\* when the stated amount is off quantity * rate by more than
\* max(0.01, 0.05 * amount); else the stated amount is kept, with no warning.
C10_ToleranceAsStated ==
    v_pc = "done" =>
        /\ Len(report.warnings) = WarnedCount
        /\ \A i \in NonzeroRateRows :
              LET q == Get(v_items[i], "item_quantity", 0)
                  r == Get(v_items[i], "item_rate", 0)
                  a == Get(v_items[i], "item_amount", 0)
                  off == Abs(q * r - 1000 * a) > Max(10000, 50 * a)
              IN  /\ v_rows[i].warned <=> off
                  /\ v_rows[i].item.item_amount = IF off THEN HalfUpProduct(q, r) ELSE a

\* C10 amended: the tolerance is 0.01, measured from quantity * rate rounded
\* half-up to 2 decimals.
C10_ToleranceOneCent ==
    v_pc = "done" =>
        /\ Len(report.warnings) = WarnedCount
        /\ \A i \in NonzeroRateRows :
              LET q == Get(v_items[i], "item_quantity", 0)
                  r == Get(v_items[i], "item_rate", 0)
                  a == Get(v_items[i], "item_amount", 0)
                  off == Abs(HalfUpProduct(q, r) - a) > 10
              IN  /\ v_rows[i].warned <=> off
                  /\ v_rows[i].item.item_amount = IF off THEN HalfUpProduct(q, r) ELSE a

\* C10 witness: quantity 14, rate 32, stated 500 has been corrected to 448.00
\* with a warning, next to a row stated 448.01 that was kept without one
C10_Witness ==
    /\ v_pc = "done"
    /\ v_items = <<FullItem(NameTabA, 14000, 32000, 500000),
                   FullItem(NameTabA, 14000, 32000, 448010)>>
    /\ v_rows[1].warned /\ v_rows[1].item.item_amount = 448000
    /\ ~v_rows[2].warned /\ v_rows[2].item.item_amount = 448010
    /\ report.warnings = <<[item_name |-> NameTabA, from |-> 500000, to |-> 448000]>>

\* the converted rows whose rate is absent or zero
ZeroRateRows ==
    {i \in 1..Len(v_rows) :
        v_rows[i].status = "ok" /\ Get(v_items[i], "item_rate", 0) = 0}

\* C11: for a row whose rate is absent or zero the amount put out by step 1
\* of validate_and_clean is the stated amount, whatever the quantity, and no
\* correction warning is recorded for the row.
C11_ZeroRateTrusted ==
    v_pc = "done" =>
        \A i \in ZeroRateRows :
            /\ v_rows[i].item.item_amount = Get(v_items[i], "item_amount", 0)
            /\ ~v_rows[i].warned

-----------------------------------------------------------------------------
(* Claims about the parser *)

IsText == ~response_text.none
Located == JsonSubstring(NewlinesToSpaces(response_text.toks))
StrictFailed ==
    /\ p_pc = "done"
    /\ IsText
    /\ HasJson(response_text.toks)
    /\ ~Loads(Located, FALSE).ok

\* C1: every call of _parse_response returns a result that carries
\* reasoning, line_items, bill_total, subtotals and notes, with line_items a
\* sequence, and line_items is the empty sequence when no stage recovered
\* anything.
C1_WellShaped ==
    p_pc = "done" =>
        /\ parsed.keys = ResultKeys
        /\ parsed.line_items.tag = "list"
        /\ taken \in {"none", "except"} => parsed.line_items = ListValue(<<>>)

\* the decode of the whole response text
Decoded == Loads(response_text.toks, FALSE)

\* C2: when the response text is a well-formed JSON object, the result
\* holds the field values of the direct decode of the text (absent fields
\* empty), and no recovery stage has run.
C2_DirectDecode ==
    (p_pc = "done" /\ IsText /\ Decoded.ok) =>
        /\ stages = <<"strict">>
        /\ parsed.extraction_reasoning = Get(Decoded.val, "extraction_reasoning", <<>>)
        /\ parsed.line_items = Get(Decoded.val, "line_items", ListValue(<<>>))
        /\ parsed.bill_total = Get(Decoded.val, "bill_total", NoNumber)
        /\ parsed.notes = Get(Decoded.val, "notes", <<>>)

IsPrefix(a, b) == Len(a) <= Len(b) /\ SubSeq(b, 1, Len(a)) = a

-----------------------------------------------------------------------------
(* Claims about the orchestrator *)

Calls == 1..Len(o_calls)

\* what extract_from_image of call i returned or raised
ImageOf(i) == extract_from_image(o_calls[i].vision, json5)

\* the output of validate_and_clean in call i
CleanedOf(i) ==
    validate_and_clean(
        convert_to_internal_format(Get(ImageOf(i).result, "line_items", ListValue(<<>>))))

\* the calls that ran the Validator
ValidatedCalls ==
    {i \in Calls : "validate" \in {o_calls[i].out.stages[k] :
                                      k \in 1..Len(o_calls[i].out.stages)}}

SameFields(a, b) ==
    /\ a.item_name = b.item_name
    /\ a.item_quantity = b.item_quantity
    /\ a.item_rate = b.item_rate
    /\ a.item_amount = b.item_amount

\* C12: when no corrective retry occurs the items extract_bill returns are
\* the items validate_and_clean put out, with the same names, quantities,
\* rates and amounts in the same order, and the returned total is the
\* 2-decimal sum of their amounts.
C12_ItemsAsValidated ==
    \A i \in ValidatedCalls :
        o_calls[i].out.metadata.retry_attempts = 0 =>
            LET cleaned == CleanedOf(i).items
                returned == o_calls[i].out.items
            IN  /\ Len(returned) = Len(cleaned)
                /\ \A k \in 1..Len(cleaned) : SameFields(returned[k], cleaned[k])
                /\ o_calls[i].out.total = Quantize(SumAmounts(cleaned))

\* the calls that recovered at least one item and carry a claimed total
ClaimedCalls ==
    {i \in ValidatedCalls : Get(ImageOf(i).result, "bill_total", NoNumber).some}

ClaimedTotal(i) == Get(ImageOf(i).result, "bill_total", NoNumber).n

\* C13: when an item is recovered and the extraction carries a claimed
\* total, the returned reconciliation status is the outcome of
\* ReconciliationEngine.reconcile for the sum of the cleaned items and the
\* claimed total, and the returned discrepancy is their distance.
C13_Reconciled ==
    \A i \in ClaimedCalls :
        LET sum == Quantize(SumAmounts(CleanedOf(i).items))
            rec == reconcile(DefaultThreshold, sum, ClaimedTotal(i))
        IN  /\ o_calls[i].out.metadata.reconciliation_status = rec.status
            /\ rec.status \in {"exact_match", "within_threshold", "mismatch"}
            /\ o_calls[i].out.metadata.discrepancy = Abs(sum - ClaimedTotal(i))

\* C14: in every call of extract_bill the vision collaborator is called at
\* most twice, corrections are applied at most once, and retry_attempts is 0
\* or 1 at the return.
C14_RetryAtMostOnce ==
    \A i \in Calls :
        /\ o_calls[i].out.vision_calls <= 2
        /\ o_calls[i].out.corrections <= 1
        /\ o_calls[i].out.metadata.retry_attempts \in {0, 1}

\* C14 witness: a call has returned one item whose sum is not the total the
\* response claims, after one call of the vision collaborator
C14_Witness ==
    \E i \in ClaimedCalls :
        /\ o_calls[i].vision.text.toks = DocBill
        /\ Len(o_calls[i].out.items) = 2
        /\ o_calls[i].out.total # ClaimedTotal(i)
        /\ o_calls[i].out.vision_calls = 1

\* C15: when the returned sum and the claimed total are a mismatch whose
\* discrepancy is the whole claimed total (above every fraction of it), the
\* call has issued one corrective round-trip and applied its corrections;
\* when they match, it has issued none.
C15_RetryOnMismatch ==
    \A i \in ClaimedCalls :
        LET rec == reconcile(DefaultThreshold, o_calls[i].out.total, ClaimedTotal(i))
        IN  /\ (~rec.is_match /\ ClaimedTotal(i) > 0
                    /\ rec.discrepancy >= ClaimedTotal(i))
                 => /\ o_calls[i].out.vision_calls = 2
                    /\ o_calls[i].out.corrections = 1
                    /\ o_calls[i].out.metadata.retry_attempts = 1
            /\ rec.is_match =>
                    /\ o_calls[i].out.vision_calls = 1
                    /\ o_calls[i].out.corrections = 0

StagesOf(i) == {o_calls[i].out.stages[k] : k \in 1..Len(o_calls[i].out.stages)}

\* the calls in which a stage threw
ThrownCalls == {i \in Calls : ImageOf(i).raised}

\* C16: a call of extract_bill in which a stage throws returns an empty item
\* list, total 0.00 and status "error", with the exception text appended
\* last to the warnings, and runs no stage after the one that threw; a call
\* in which no stage throws does not end in "error".
C16_ErrorIsTerminal ==
    \A i \in Calls :
        LET out == o_calls[i].out
        IN  IF i \in ThrownCalls
            THEN /\ out.items = <<>>
                 /\ out.total = 0
                 /\ out.metadata.reconciliation_status = "error"
                 /\ out.metadata.warnings # <<>>
                 /\ out.metadata.warnings[Len(out.metadata.warnings)]
                        = ExceptionWarning(ImageOf(i).exc)
                 /\ out.stages = ImageOf(i).stages
                 /\ StagesOf(i) \subseteq {"vision", "parse"}
            ELSE out.metadata.reconciliation_status # "error"

\* C16 witness: a call has returned after the parsing stage threw on a
\* response whose line_items is null
C16_Witness ==
    \E i \in ThrownCalls :
        /\ ~o_calls[i].vision.raises
        /\ o_calls[i].vision.text.toks = DocNull
        /\ o_calls[i].out.stages = <<"vision", "parse">>
        /\ o_calls[i].out.metadata.reconciliation_status = "error"

\* the calls whose parse stage put out an empty list of line items
EmptyCalls ==
    {i \in Calls \ ThrownCalls :
        Get(ImageOf(i).result, "line_items", ListValue(<<>>)) = ListValue(<<>>)}

C19_Stateless ==
    \A i \in Calls : \A k \in Calls :
        o_calls[i].vision = o_calls[k].vision =>
            /\ o_calls[i].out.items = o_calls[k].out.items
            /\ o_calls[i].out.total = o_calls[k].out.total
            /\ o_calls[i].out.metadata = o_calls[k].out.metadata

-----------------------------------------------------------------------------
(* Claims about the PDF request *)

RECURSIVE SumReported(_)
\* the sum over pages 1..n of the usage the page's vision call reported
SumReported(n) == IF n = 0 THEN 0 ELSE SumReported(n - 1) + w_img[n].usage

\* C18: the token_usage of the response of a multi-page request is the sum
\* over its pages of the usage the vision call of the page reported,
\* whatever the interleaving of the page workers.
C18_TokenUsageIsPageSum ==
    (c_pc = "responded" /\ Len(pages) >= 2) =>
        response.token_usage = SumReported(Len(pages))

\* C20: the response is built only when every page worker has completed,
\* and its pagewise_line_items are the pages with items in strictly
\* ascending page number, whatever the order of completion.
C20_AscendingPages ==
    c_pc = "responded" =>
        LET pw == response.pagewise_line_items
        IN  /\ \A p \in PageNos : w_pc[p] = "done"
            /\ Len(completed) = Len(pages)
            /\ \A k \in 1..(Len(pw) - 1) : pw[k].page_no < pw[k + 1].page_no
            /\ {pw[k].page_no : k \in 1..Len(pw)} = {p \in PageNos : w_result[p].success}

\* C20 witness: a response has been built from two pages with items of
\* which the later page completed first
C20_Witness ==
    /\ c_pc = "responded"
    /\ Len(response.pagewise_line_items) >= 2
    /\ \E k \in 1..(Len(completed) - 1) :
          /\ completed[k] > completed[k + 1]
          /\ w_result[completed[k]].success
          /\ w_result[completed[k + 1]].success

\* the pages whose vision call or parsing threw
FailedPages == {p \in PageNos : w_img[p].raised}

\* C21: when the vision call of a page fails, the document-level run still
\* ends with a response, the failed page contributes no items, and every
\* sibling page with items appears in the response with its own items, in
\* page order.
C21_FailureStaysOnPage ==
    (\A p \in PageNos : w_pc[p] = "done") =>
        /\ ENABLED Aggregate \/ c_pc = "responded"
        /\ c_pc = "responded" =>
              LET pw == response.pagewise_line_items
                  siblings == {p \in PageNos \ FailedPages :
                                  BillFromImage(0, w_img[p]).items # <<>>}
              IN  /\ \A k \in 1..Len(pw) : pw[k].page_no \notin FailedPages
                  /\ \A p \in siblings :
                        \E k \in 1..Len(pw) :
                            /\ pw[k].page_no = p
                            /\ pw[k].bill_items = BillFromImage(0, w_img[p]).items
                  /\ \A k \in 1..(Len(pw) - 1) : pw[k].page_no < pw[k + 1].page_no

\* C21 witness: a response has been built for a document whose first page
\* failed in the vision call and whose second page has items
C21_Witness ==
    /\ c_pc = "responded"
    /\ Len(pages) >= 2
    /\ pages[1].raises
    /\ 1 \in FailedPages
    /\ Len(response.pagewise_line_items) >= 1
    /\ response.pagewise_line_items[1].page_no = 2

\* C22: every page worker's extract_bill call eventually returns, whether
\* or not the vision collaborator answers.
C22_EveryPageReturns ==
    <>(\A p \in PageNos : w_pc[p] = "done")

\* C30: when every page worker has completed, the orchestrator's counter has
\* grown by the sum of the usage reported for every page, whatever the
\* interleaving of the workers' load and store steps.
C30_NoLostUpdate ==
    (\A p \in PageNos : w_pc[p] = "done") =>
        total_tokens = tokens_before + SumReported(Len(pages))

-----------------------------------------------------------------------------
(* Claims about the regex field-salvage *)

\* the positions of the item_name fields of the located text whose name is
\* not blank, in the order of the text
NameFields ==
    LET at == {i \in 1..Len(Located) :
                  Located[i].k = "item_name" /\ Strip(Located[i].s) # <<>>}
    IN  [k \in 1..Cardinality(at) |->
            CHOOSE i \in at : Cardinality({h \in at : h < i}) = k - 1]

\* a quantity, rate or amount field lies in the window after position i
NumberInWindow(i) ==
    \E kind \in {"quantity", "rate", "amount"} : FieldAfter(Located, i, kind).some

\* the regex stage has put out the result
Salvaged == p_pc = "done" /\ taken = "regex"

\* C23: the regex field-salvage stage puts out an item for an item_name
\* field only if a quantity, rate or amount field was found in the window
\* after that name.
C23_SalvageNeedsNumber ==
    Salvaged =>
        \A k \in 1..Len(parsed.line_items.elems) :
            \E n \in 1..Len(NameFields) :
                /\ Strip(Located[NameFields[n]].s) = parsed.line_items.elems[k].item_name
                /\ NumberInWindow(NameFields[n])

\* the number the window after position i gives for a field, with the
\* stage's value for a field that is not there
OwnNumber(i, kind, default) ==
    LET f == FieldAfter(Located, i, kind) IN IF f.some THEN f.n ELSE default

\* C27: the regex field-salvage stage recovers one item for every
\* occurrence of an item_name field, and the quantity, rate and amount of
\* the k-th item are the nearest such fields in the window after the k-th
\* occurrence (stated for texts in which every occurrence has a number in
\* its window).
C27_OwnOccurrence ==
    (Salvaged /\ \A n \in 1..Len(NameFields) : NumberInWindow(NameFields[n])) =>
        LET items == parsed.line_items.elems
        IN  /\ Len(items) = Len(NameFields)
            /\ \A k \in 1..Len(items) :
                  /\ items[k].item_name = Strip(Located[NameFields[k]].s)
                  /\ items[k].quantity = OwnNumber(NameFields[k], "quantity", 1000)
                  /\ items[k].rate = OwnNumber(NameFields[k], "rate", 0)
                  /\ items[k].amount = OwnNumber(NameFields[k], "amount", 0)

-----------------------------------------------------------------------------
(* Claims about validate_line_item_amounts *)

\* the rows of the checked list all hold numbers
AllNumbers == \A i \in 1..Len(sum_items) : sum_items[i].bad = {}

\* quantity * rate - amount of a row, in millionths
Off(item) ==
    Abs(Get(item, "item_quantity", 0) * Get(item, "item_rate", 0)
          - 1000 * Get(item, "item_amount", 0))

\* the positions an error list names
Reported == {amount_check.errors[k] : k \in 1..Len(amount_check.errors)}

\* C24 as stated: on rows that hold numbers, validate_line_item_amounts
\* reports exactly the rows whose quantity * rate is off the amount by more
\* than max(0.01, 0.05 * amount), and is_valid says that none was reported
C24_RelativeTolerance ==
    (r_pc = "checked" /\ AllNumbers)
        => /\ \A i \in 1..Len(sum_items) :
                 i \in Reported
                     <=> Off(sum_items[i])
                           > Max(10000, 50 * Get(sum_items[i], "item_amount", 0))
           /\ amount_check.is_valid <=> amount_check.errors = <<>>

\* C24 amended: validate_line_item_amounts reports, once each and in list
\* order, exactly the rows that hold a value that is no number or whose
\* quantity * rate is off the amount by more than 0.01, and is_valid says
\* that none was reported
C24_FixedTolerance ==
    r_pc = "checked"
        => /\ \A i \in 1..Len(sum_items) :
                 i \in Reported
                     <=> (sum_items[i].bad # {} \/ Off(sum_items[i]) > 10000)
           /\ \A k \in 1..Len(amount_check.errors) :
                 /\ amount_check.errors[k] \in 1..Len(sum_items)
                 /\ \A j \in 1..(k - 1) :
                       amount_check.errors[j] < amount_check.errors[k]
           /\ amount_check.is_valid <=> amount_check.errors = <<>>

\* 14 x 32 against 448.00 passes while 450.00 and 500.00 are reported
C24_Witness ==
    /\ r_pc = "checked"
    /\ sum_items = <<FullItem(<<>>, 14000, 32000, 448000),
                     FullItem(<<>>, 14000, 32000, 450000),
                     FullItem(<<>>, 14000, 32000, 500000)>>
    /\ amount_check = [is_valid |-> FALSE, errors |-> <<2, 3>>]

-----------------------------------------------------------------------------
(* Claims about the report of validate_and_clean *)

\* the rows of the input that hold a value that is no number
Unconvertible == {i \in 1..Len(v_items) : v_items[i].bad # {}}

\* C25: validate_and_clean skips a row whose fields cannot be converted and
\* counts it among the errors of the report, every other row goes through
\* step 1, and the counts add up: original_count is the length of the input,
\* final_count the length of the output, and original_count = final_count +
\* removed double-counts + skipped rows
C25_SkippedNotFatal ==
    v_pc = "done"
        => /\ Len(v_rows) = Len(v_items)
           /\ \A i \in 1..Len(v_items) :
                 v_rows[i].status = (IF i \in Unconvertible THEN "error" ELSE "ok")
           /\ report.skipped = Cardinality(Unconvertible)
           /\ report.original_count = Len(v_items)
           /\ report.final_count = Len(v_out)
           /\ report.original_count
                 = report.final_count + Len(report.removed) + report.skipped

\* a list with a row that is skipped, a row that is removed as a double
\* count and a row that is kept
C25_Witness ==
    /\ v_pc = "done"
    /\ report.skipped = 1
    /\ Len(report.removed) = 1
    /\ report.final_count = 1
    /\ report.original_count = 3

-----------------------------------------------------------------------------
(* Claims about clean_item_name *)

\* position i of s stands between two digits
BetweenDigits(s, i) ==
    i > 1 /\ i < Len(s) /\ IsDigit(s[i - 1]) /\ IsDigit(s[i + 1])

\* s without its whitespace
RECURSIVE Solid(_)
Solid(s) ==
    IF s = <<>> THEN <<>>
    ELSE IF IsSpace(Head(s)) THEN Solid(Tail(s)) ELSE <<Head(s)>> \o Solid(Tail(s))

\* the number of words of s, a word being a longest run without whitespace
RECURSIVE Words(_)
Words(s) ==
    IF s = <<>> THEN 0
    ELSE IF ~IsSpace(Head(s)) /\ (Len(s) = 1 \/ IsSpace(s[2]))
         THEN 1 + Words(Tail(s))
         ELSE Words(Tail(s))

\* the name as it is before the letters are replaced
Denoised == RStripNoise(LStripNoise(CollapseSpaces(raw_name)))

-----------------------------------------------------------------------------
(* Claims about _apply_corrections *)

\* what correction k gives for a number: its value, or nothing
Given(k, key) == key \in fix_list[k].keys /\ key \notin fix_list[k].bad

\* the name correction k asks for
AskedName(k) ==
    IF "item_name" \in fix_list[k].keys THEN fix_list[k].item_name ELSE NoneName

\* the action of correction k, whatever its case
AskedAction(k) ==
    IF "action" \in fix_list[k].keys THEN Lower(fix_list[k].action) ELSE <<>>

\* the positions of a list that hold the name
Matches(items, item_name) == {i \in 1..Len(items) : items[i].item_name = item_name}

\* s without the items of the name, in order
RECURSIVE Without(_, _)
Without(s, item_name) ==
    IF s = <<>> THEN <<>>
    ELSE IF Head(s).item_name = item_name THEN Without(Tail(s), item_name)
         ELSE <<Head(s)>> \o Without(Tail(s), item_name)

\* correction k has appended one item built from it
Added(before, after, k) ==
    /\ Len(after) = Len(before) + 1
    /\ SubSeq(after, 1, Len(before)) = before
    /\ LET new == after[Len(after)]
       IN  /\ new.item_name = AskedName(k)
           /\ new.item_quantity = (IF Given(k, "quantity") THEN fix_list[k].quantity ELSE 1000)
           /\ new.item_rate = (IF Given(k, "rate") THEN fix_list[k].rate ELSE 0)
           /\ new.item_amount = (IF Given(k, "amount") THEN fix_list[k].amount ELSE 0)

\* correction k has overwritten the numbers of every item of its name
Modified(before, after, k) ==
    /\ Len(after) = Len(before)
    /\ \A i \in 1..Len(before) :
          IF i \in Matches(before, AskedName(k))
          THEN /\ after[i].item_name = before[i].item_name
               /\ after[i].item_quantity
                    = (IF Given(k, "quantity") THEN fix_list[k].quantity
                       ELSE before[i].item_quantity)
               /\ after[i].item_rate
                    = (IF Given(k, "rate") THEN fix_list[k].rate ELSE before[i].item_rate)
               /\ after[i].item_amount
                    = (IF Given(k, "amount") THEN fix_list[k].amount
                       ELSE before[i].item_amount)
          ELSE after[i] = before[i]

\* C28: _apply_corrections takes the corrections in list order; add appends
\* one item built from the correction, remove deletes every item of exactly
\* the correction's name, modify overwrites quantity, rate and amount of
\* every item of that name and keeps the value of a field the correction
\* does not give; any other action, and a remove or modify whose name no
\* item has, leaves the list as it was
C28_CorrectionsInOrder ==
    fix_pc = "done"
        => /\ Len(fix_trace) = Len(fix_list) + 1
           /\ fix_trace[1] = fix_items
           /\ fix_out = fix_trace[Len(fix_trace)]
           /\ \A k \in 1..Len(fix_list) :
                 LET before == fix_trace[k]
                     after == fix_trace[k + 1]
                 IN  /\ AskedAction(k) = ActAdd => Added(before, after, k)
                     /\ AskedAction(k) = ActRemove
                           => after = Without(before, AskedName(k))
                     /\ AskedAction(k) = ActModify => Modified(before, after, k)
                     /\ AskedAction(k) \notin {ActAdd, ActRemove, ActModify}
                           => after = before
                     /\ (/\ AskedAction(k) \in {ActRemove, ActModify}
                         /\ Matches(before, AskedName(k)) = {})
                           => after = before

\* two items named A have their amount overwritten, quantity and rate kept,
\* and are then both removed
C28_Witness ==
    /\ fix_pc = "done"
    /\ fix_items = <<FullItem(NameA, 1000, 2000, 2000), FullItem(NameA, 3000, 1000, 3000)>>
    /\ fix_list = <<Correction({"action", "item_name", "amount"}, {}, ActModify, NameA, 0, 0, 9000),
                    Correction({"action", "item_name"}, {}, ActRemove, NameA, 0, 0, 0)>>
    /\ fix_trace[2] = <<FullItem(NameA, 1000, 2000, 9000), FullItem(NameA, 3000, 1000, 9000)>>
    /\ fix_out = <<>>

-----------------------------------------------------------------------------
(* Claims about the outlier rule on positive amounts *)

\* every row of the list holds a positive amount in whole cents
PositiveCents ==
    \A i \in 1..Len(g_items) :
        /\ "item_amount" \in g_items[i].keys
        /\ g_items[i].item_amount > 0
        /\ g_items[i].item_amount % Cent = 0

\* the rows accepted before row i, counted from the decisions of the loop
KeptBefore(i) == {j \in 1..(i - 1) : g_log[j] \in {"kept", "kept_keyword"}}

RECURSIVE AmountOver(_)
AmountOver(rows) ==
    IF rows = {} THEN 0
    ELSE LET j == CHOOSE x \in rows : TRUE
         IN  g_items[j].item_amount + AmountOver(rows \ {j})

\* C29: on positive amounts in whole cents, every row the outlier rule
\* removes has at least 6 accepted rows before it, and a row without
\* keyword whose amount is the sum of the accepted rows is kept when 3, 4
\* or 5 rows are accepted
C29_OutlierNeedsSix ==
    (g_pass >= 1 /\ PositiveCents)
        => \A i \in 1..Len(g_items) :
              /\ g_log[i] = "outlier" => Cardinality(KeptBefore(i)) >= 6
              /\ (/\ ~is_double_count_keyword(Lower(g_items[i].item_name))
                  /\ Cardinality(KeptBefore(i)) \in {3, 4, 5}
                  /\ g_items[i].item_amount = AmountOver(KeptBefore(i)))
                    => g_log[i] = "kept"

\* five rows of 1.00 are followed by a row of 5.00, their sum, which is
\* kept, and then by a row of 10.00, the sum of the six accepted rows, which
\* the outlier rule removes
C29_Witness ==
    /\ g_pass >= 1
    /\ PositiveCents
    /\ g_items = Repeat(OrdinaryRow, 5)
                    \o <<FullItem(NameTabA, 1000, 5000, 5000),
                         FullItem(NameTabA, 1000, 10000, 10000)>>
    /\ g_log = <<"kept", "kept", "kept", "kept", "kept", "kept", "outlier">>

=============================================================================
